---- MODULE Spec2Model ----
(***************************************************************************)
(* LocationCache (src/location_extraction/location_cache.py): the          *)
(* persistent two-document location cache with fuzzy matching and          *)
(* frequency-weighted lookups.                                             *)
(*                                                                         *)
(* Strings are sequences of one-character strings.  Python dicts are       *)
(* records [keys |-> insertion-ordered sequence, val |-> function].        *)
(* Similarity scores are exact rationals [num, den] in lowest terms.       *)
(***************************************************************************)
EXTENDS Integers, Sequences, FiniteSets, TLC

(***************************************************************************)
(* Bounds of the model.                                                     *)
(***************************************************************************)
MaxHits == 2
MaxClock == 1
MaxLookups == 2
MaxTextLen == 3

(***************************************************************************)
(* Python values.                                                           *)
(***************************************************************************)
\* None in a scalar position (a dict field).
None == "None"
\* None in the position of a returned dict.
NoRecord == [is_none |-> TRUE]

\* d.get(f, default)
Get(d, f, default) == IF f \in DOMAIN d THEN d[f] ELSE default

\* An exact rational n/d, d > 0, in lowest terms.
RECURSIVE Gcd(_, _)
Gcd(a, b) == IF b = 0 THEN a ELSE Gcd(b, a % b)

Rat(n, d) ==
    LET g == Gcd(IF n < 0 THEN -n ELSE n, d)
    IN  [num |-> n \div g, den |-> d \div g]

RatLess(a, b) == a.num * b.den < b.num * a.den

RatFromInt(n) == [num |-> n, den |-> 1]

(***************************************************************************)
(* Characters.                                                              *)
(***************************************************************************)
LowerLetters == <<"a", "b", "c", "d", "e", "f", "g", "h", "i", "j", "k", "l", "m">>
UpperLetters == <<"A", "B", "C", "D", "E", "F", "G", "H", "I", "J", "K", "L", "M">>

Range(s) == {s[i] : i \in 1..Len(s)}

IndexOf(s, c) == CHOOSE i \in 1..Len(s) : s[i] = c

\* str.lower() on one character
Lower(c) == IF c \in Range(UpperLetters) THEN LowerLetters[IndexOf(UpperLetters, c)] ELSE c

\* \s of the regular expressions and of str.strip() / str.split()
Whitespace == {" ", "\t", "\n"}

\* the character class ['"\-\.\,\*]
Punctuation == {"'", "\"", "-", ".", ",", "*"}

\* the code point of a character of a normalized key
CodePoint(c) ==
    IF c \in Range(LowerLetters) THEN 96 + IndexOf(LowerLetters, c)
    ELSE IF c = " " THEN 32
    ELSE 0

(***************************************************************************)
(* _normalize                                                               *)
(***************************************************************************)
RECURSIVE LStrip(_)
LStrip(s) == IF s # <<>> /\ Head(s) \in Whitespace THEN LStrip(Tail(s)) ELSE s

RECURSIVE RStrip(_)
RStrip(s) ==
    IF s # <<>> /\ s[Len(s)] \in Whitespace THEN RStrip(SubSeq(s, 1, Len(s) - 1)) ELSE s

\* str.strip()
Strip(s) == RStrip(LStrip(s))

\* re.sub(r"['\"\-\.\,\*]", " ", text)
PunctToSpace(c) == IF c \in Punctuation THEN " " ELSE c

\* re.sub(r"\s+", " ", text)
RECURSIVE CollapseWhitespace(_)
CollapseWhitespace(s) ==
    IF s = <<>> THEN <<>>
    ELSE IF Head(s) \in Whitespace
         THEN <<" ">> \o CollapseWhitespace(LStrip(s))
         ELSE <<Head(s)>> \o CollapseWhitespace(Tail(s))

\* as _normalize, but without the last strip
normalize_without_last_strip(text) ==
    LET t1 == Strip([i \in 1..Len(text) |-> Lower(text[i])])
        t2 == [i \in 1..Len(t1) |-> PunctToSpace(t1[i])]
    IN  CollapseWhitespace(t2)

normalize(text) ==
    LET t1 == Strip([i \in 1..Len(text) |-> Lower(text[i])])
        t2 == [i \in 1..Len(t1) |-> PunctToSpace(t1[i])]
    IN  Strip(CollapseWhitespace(t2))

(***************************************************************************)
(* rapidfuzz: fuzz.token_sort_ratio and process.extract                     *)
(***************************************************************************)
\* str.split(): the maximal runs of non-whitespace characters
RECURSIVE Split(_)
Split(s) ==
    LET t == LStrip(s)
        n == IF \E i \in 1..Len(t) : t[i] \in Whitespace
             THEN (CHOOSE i \in 1..Len(t) :
                      t[i] \in Whitespace /\ \A j \in 1..(i - 1) : t[j] \notin Whitespace) - 1
             ELSE Len(t)
    IN  IF t = <<>> THEN <<>>
        ELSE <<SubSeq(t, 1, n)>> \o Split(SubSeq(t, n + 1, Len(t)))

\* s < t in the lexicographic order of code points
RECURSIVE StrLess(_, _)
StrLess(s, t) ==
    IF t = <<>> THEN FALSE
    ELSE IF s = <<>> THEN TRUE
    ELSE IF CodePoint(Head(s)) # CodePoint(Head(t))
         THEN CodePoint(Head(s)) < CodePoint(Head(t))
         ELSE StrLess(Tail(s), Tail(t))

\* sorted(tokens)
SortTokens(toks) ==
    LET n == Len(toks)
        Before(i, j) == StrLess(toks[i], toks[j]) \/ (toks[i] = toks[j] /\ i < j)
        Pos(i) == 1 + Cardinality({j \in 1..n : Before(j, i)})
    IN  [p \in 1..n |-> toks[CHOOSE i \in 1..n : Pos(i) = p]]

\* " ".join(tokens)
RECURSIVE Join(_)
Join(toks) ==
    IF toks = <<>> THEN <<>>
    ELSE IF Len(toks) = 1 THEN toks[1]
    ELSE toks[1] \o <<" ">> \o Join(Tail(toks))

\* length of a longest common subsequence
RECURSIVE LCS(_, _)
LCS(s, t) ==
    IF s = <<>> \/ t = <<>> THEN 0
    ELSE IF Head(s) = Head(t) THEN 1 + LCS(Tail(s), Tail(t))
    ELSE LET a == LCS(Tail(s), t)
             b == LCS(s, Tail(t))
         IN  IF a >= b THEN a ELSE b

\* fuzz.ratio: the normalized Indel similarity, 0..100
ratio(s, t) ==
    IF Len(s) + Len(t) = 0 THEN RatFromInt(100)
    ELSE Rat(100 * 2 * LCS(s, t), Len(s) + Len(t))

token_sort_ratio(s, t) == ratio(Join(SortTokens(Split(s))), Join(SortTokens(Split(t))))

(***************************************************************************)
(* Inputs.                                                                  *)
(***************************************************************************)
\* raw texts and the keys they normalize to
TextBA == <<"b", " ", "a">>                \* "b a"
TextBDotA == <<" ", "B", ".", " ", "a">>    \* "b a"
TextABC == <<"A", "-", "b", "c">>          \* "a bc"
TextAB == <<"A", " ", " ", "B">>           \* "a b"
TextCD == <<"C", " ", "d">>                \* "c d"
TextStar == <<"*">>                        \* ""
TextBlank == <<" ">>                       \* ""
TextEmpty == <<>>                          \* ""

\* "a bcd", "a bce", ..., "a bcm": the keys of a cache file of an earlier run
FillerKeys == [i \in 1..(Len(LowerLetters) - 3) |-> <<"a", " ", "b", "c", LowerLetters[i + 3]>>]

StoreTexts == {TextBA, TextBDotA, TextABC, TextStar, TextEmpty}
LookupTexts == {TextBA, TextABC, TextAB, TextBlank, TextEmpty}
OverrideTexts == {TextBA, TextAB, TextBlank, TextStar}

SwanHill ==
    [lat |-> "-35.338", lon |-> "143.55", state |-> "VIC", city |-> "Swan Hill",
     type |-> "regional"]

RightCity == [lat |-> "1.0", lon |-> "1.0", state |-> "RIGHT", city |-> "Right City"]

StoreData == {SwanHill}
OverrideData == {RightCity}
Sources == {"auto"}
Reasons == {""}
Thresholds == {85, 95}

\* every text a call is given in this model, and the keys they normalize to
AllTexts ==
    StoreTexts \cup LookupTexts \cup OverrideTexts \cup Range(FillerKeys) \cup {TextCD}

AllKeys == {normalize(t) : t \in AllTexts}

\* the scorer on the keys of the model, computed once
ScoreTable == [q \in AllKeys |-> [k \in AllKeys |-> token_sort_ratio(q, k)]]

scorer(q, k) ==
    IF q \in AllKeys /\ k \in AllKeys THEN ScoreTable[q][k] ELSE token_sort_ratio(q, k)

\* process.extract(query, choices, scorer=fuzz.token_sort_ratio, limit=limit):
\* every choice is scored, the results are ordered by descending score, equal
\* scores by ascending position in choices, and the first limit are returned.
Extract(query, choices, limit) ==
    LET n == Len(choices)
        m == IF n < limit THEN n ELSE limit
        Rank(score) ==
            LET Before(i, j) ==
                    RatLess(score[j], score[i]) \/ (score[i] = score[j] /\ i < j)
                Pos(i) == 1 + Cardinality({j \in 1..n : Before(j, i)})
                At(i) == [key |-> choices[i], score |-> score[i], index |-> i]
            IN  [p \in 1..m |-> At(CHOOSE i \in 1..n : Pos(i) = p)]
    IN  Rank([i \in 1..n |-> scorer(query, choices[i])])

(***************************************************************************)
(* Python dict: insertion-ordered keys and the mapping.                     *)
(***************************************************************************)
EmptyDict == [keys |-> <<>>, val |-> [k \in {} |-> None]]

DictHas(d, k) == k \in DOMAIN d.val

\* d[k] = v
DictPut(d, k, v) ==
    [keys |-> IF DictHas(d, k) THEN d.keys ELSE Append(d.keys, k),
     val  |-> [x \in (DOMAIN d.val) \cup {k} |-> IF x = k THEN v ELSE d.val[x]]]

\* entry[f] = v
SetField(e, f, v) == [x \in (DOMAIN e) \cup {f} |-> IF x = f THEN v ELSE e[x]]

(***************************************************************************)
(* State.                                                                   *)
(***************************************************************************)
VARIABLES
    fuzzy_threshold,   \* self.fuzzy_threshold
    cache,             \* self._cache: [meta, entries]
    overrides,         \* self._overrides: [meta, overrides]
    cache_keys,        \* self._cache_keys
    override_keys,     \* self._override_keys
    disk_cache,        \* <cache_dir>/location_cache.json
    disk_overrides,    \* <cache_dir>/location_overrides.json
    clock,             \* the UTC wall clock, in seconds
    lookup_calls,      \* the number of lookup calls made on this instance
    session,           \* LocationExtractor.cache, the coordinates found in this session
    lastOp,            \* the last public call: [op, key, step]
    ret                \* what the last public call returned

vars == <<fuzzy_threshold, cache, overrides, cache_keys, override_keys,
          disk_cache, disk_overrides, clock, lookup_calls, session, lastOp, ret>>

\* the part of the state that belongs to the instance and its files
instance == <<fuzzy_threshold, cache, overrides, cache_keys, override_keys,
              disk_cache, disk_overrides>>

NoFile == [exists |-> FALSE]

\* a file that holds the text of a JSON document
File(text) == [exists |-> TRUE, kind |-> "json", text |-> text]

\* a file that holds no JSON document: "truncated" is text that is not valid
\* JSON, "bytes" is not UTF-8 text, "array" is valid JSON but no object;
\* "unreadable" cannot be opened
DamageKinds == {"truncated", "bytes", "array", "unreadable"}

Damaged(kind) == [exists |-> TRUE, kind |-> kind]

\* the members of a JSON object, in the order json.dump writes them: the
\* insertion order of the dict
Members(d) == [i \in 1..Len(d.keys) |-> [name |-> d.keys[i], value |-> d.val[d.keys[i]]]]

\* the dict json.load builds from the members of an object, in their order
RECURSIVE FromMembers(_)
FromMembers(ms) ==
    IF ms = <<>> THEN EmptyDict
    ELSE DictPut(FromMembers(SubSeq(ms, 1, Len(ms) - 1)), ms[Len(ms)].name, ms[Len(ms)].value)

\* json.dump(document, f, indent=2, ensure_ascii=False)
json_dump(doc) == [f \in DOMAIN doc |-> IF f = "meta" THEN doc[f] ELSE Members(doc[f])]

\* json.load(f) of the text of a document
json_load(text) == [f \in DOMAIN text |-> IF f = "meta" THEN text[f] ELSE FromMembers(text[f])]

\* the default document of _load_cache
DefaultCache ==
    [meta    |-> [version |-> 1, total_entries |-> 0, total_lookups |-> 0],
     entries |-> EmptyDict]

\* the default document of _load_overrides
DefaultOverrides ==
    [meta      |-> [description |-> "Manual corrections", version |-> 1],
     overrides |-> EmptyDict]

\* _load_cache / _load_overrides: the document of the file; the default when
\* the file is missing, json.load raises JSONDecodeError or open raises OSError
LoadDoc(file, default) ==
    IF file.exists /\ file.kind = "json" THEN json_load(file.text) ELSE default

\* a call that returns nothing returns None
NoReturn == NoRecord

\* a call that ends with an exception
Raised(exception, during) == [raised |-> exception, during |-> during]

\* reading the file raises UnicodeDecodeError, which is neither
\* JSONDecodeError nor OSError
NotText(file) == file.exists /\ file.kind = "bytes"

\* json.load returns a list, on which _rebuild_keys calls .get
NotObject(file) == file.exists /\ file.kind = "array"

\* how __init__ ends on a directory holding the two files: _load_cache,
\* _load_overrides, then _rebuild_keys
init_outcome(cacheFile, overridesFile) ==
    IF NotText(cacheFile) THEN Raised("UnicodeDecodeError", "location_cache.json")
    ELSE IF NotText(overridesFile) THEN Raised("UnicodeDecodeError", "location_overrides.json")
    ELSE IF NotObject(cacheFile) THEN Raised("AttributeError", "location_cache.json")
    ELSE IF NotObject(overridesFile) THEN Raised("AttributeError", "location_overrides.json")
    ELSE NoReturn

\* _now_iso
now_iso == clock

\* the pair lookup returns
Result(data, conf) == [data |-> data, conf |-> conf]

Call(op, key, step) == [op |-> op, key |-> key, step |-> step]

\* a call of get_top_locations, with the n it was given
CallTopLocations(n) == [op |-> "get_top_locations", key |-> <<>>, step |-> 0, n |-> n]

\* a call of add_override, with the data and the reason it was given
CallAddOverride(key, data, reason) ==
    [op |-> "add_override", key |-> key, step |-> 0, data |-> data, reason |-> reason]

\* LocationCache(cache_dir, fuzzy_threshold) on a directory holding the two files
Construct(threshold, cacheFile, overridesFile) ==
    /\ fuzzy_threshold = threshold
    /\ disk_cache = cacheFile
    /\ disk_overrides = overridesFile
    /\ cache = LoadDoc(cacheFile, DefaultCache)
    /\ overrides = LoadDoc(overridesFile, DefaultOverrides)
    /\ cache_keys = cache.entries.keys
    /\ override_keys = overrides.overrides.keys
    /\ clock = 0
    /\ lookup_calls = 0
    /\ session = EmptyDict
    /\ lastOp = Call("init", <<>>, 0)
    /\ ret = NoReturn

(***************************************************************************)
(* Internal helpers.                                                        *)
(***************************************************************************)
\* as _touch_hit, but the count starts again at one
touch_hit_restart(entry) ==
    SetField(SetField(entry, "hit_count", 1), "last_seen", now_iso)

\* _touch_hit
touch_hit(entry) ==
    SetField(SetField(entry, "hit_count", Get(entry, "hit_count", 0) + 1),
             "last_seen", now_iso)

NoOverride == [data |-> NoRecord, score |-> RatFromInt(0)]

\* the override of the result at position p
override_at(results, p) ==
    [data |-> overrides.overrides.val[results[p].key], score |-> results[p].score]

\* the first result whose score is at or above the threshold
first_at_threshold(results) ==
    LET hits == {p \in 1..Len(results) :
                    ~RatLess(results[p].score, RatFromInt(fuzzy_threshold))}
    IN  IF hits = {} THEN NoOverride
        ELSE override_at(results, CHOOSE p \in hits : \A q \in hits : p <= q)

\* as _fuzzy_search_overrides, but the best-ranked override is returned
\* whatever its score
fuzzy_search_overrides_no_threshold(key) ==
    IF override_keys = <<>> THEN NoOverride
    ELSE LET First(results) == override_at(results, 1)
         IN  First(Extract(key, override_keys, 5))

\* as _fuzzy_search_overrides, but over the override keys in the order of
\* the document instead of by rank
fuzzy_search_overrides_unranked(key) ==
    IF override_keys = <<>> THEN NoOverride
    ELSE first_at_threshold([i \in 1..Len(override_keys) |->
             [key |-> override_keys[i], score |-> scorer(key, override_keys[i]),
              index |-> i]])

\* _fuzzy_search_overrides: [data, score]
fuzzy_search_overrides(key) ==
    IF override_keys = <<>> THEN NoOverride
    ELSE first_at_threshold(Extract(key, override_keys, 5))

NoCandidate == [found |-> FALSE, key |-> <<>>, score |-> RatFromInt(0)]

\* candidates[0] after candidates.sort(key=(hit_count, score), reverse=True),
\* a stable sort of the candidates in the order of the results
best_candidate(results, candidates) ==
    LET hc(p) == Get(cache.entries.val[results[p].key], "hit_count", 0)
        Before(p, q) ==
            \/ hc(p) > hc(q)
            \/ hc(p) = hc(q) /\ RatLess(results[q].score, results[p].score)
            \/ hc(p) = hc(q) /\ results[p].score = results[q].score /\ p < q
        Found(best) ==
            [found |-> TRUE, key |-> results[best].key, score |-> results[best].score]
    IN  IF candidates = {} THEN NoCandidate
        ELSE Found(CHOOSE p \in candidates : \A q \in candidates \ {p} : Before(p, q))

\* as _fuzzy_search_cache, but without the filter on resolved
fuzzy_search_cache_any(key) ==
    IF cache_keys = <<>> THEN NoCandidate
    ELSE LET Search(results) ==
                 best_candidate(results,
                     {p \in 1..Len(results) :
                         ~RatLess(results[p].score, RatFromInt(fuzzy_threshold))})
         IN  Search(Extract(key, cache_keys, 10))

\* _fuzzy_search_cache, up to the choice of the best candidate:
\* [found, key, score]
fuzzy_search_cache(key) ==
    IF cache_keys = <<>> THEN NoCandidate
    ELSE LET Search(results) ==
                 best_candidate(results,
                     {p \in 1..Len(results) :
                         /\ ~RatLess(results[p].score, RatFromInt(fuzzy_threshold))
                         /\ Get(cache.entries.val[results[p].key], "resolved", FALSE)})
         IN  Search(Extract(key, cache_keys, 10))

\* a Python dict is true iff it is not empty; None is false
Truthy(d, k) == DictHas(d, k) /\ DOMAIN d.val[k] # {}

\* _increment_lookups
increment_lookups(c) ==
    [c EXCEPT !.meta = SetField(@, "total_lookups", Get(@, "total_lookups", 0) + 1)]

\* the bound on the hit_count of key k: the key that is stored as unresolved,
\* stored again as resolved and then looked up is hit three times
HitBound(k) == IF k = normalize(TextCD) THEN MaxHits + 1 ELSE MaxHits

\* no hit_count runs past the bound of the model
WithinHits(entries) ==
    \A k \in DOMAIN entries.val : Get(entries.val[k], "hit_count", 0) <= HitBound(k)

(***************************************************************************)
(* Public API.                                                              *)
(***************************************************************************)
\* what a lookup leaves and returns: the entries, the pair (data, conf) and
\* the numbered step of the lookup order that answered (0: the empty key)
Outcome(entries, data, conf, step) ==
    [entries |-> entries, data |-> data, conf |-> conf, step |-> step]

\* as the fuzzy cache step, but the winning entry is returned untouched
fuzzy_cache_step_no_touch(key) ==
    LET entries == cache.entries
        Answer(fc) ==
            IF fc.found
            THEN Outcome(entries, entries.val[fc.key], fc.score, 4)
            ELSE Outcome(entries, NoRecord, RatFromInt(0), 5)
    IN  Answer(fuzzy_search_cache(key))

\* lookup, "4. Fuzzy cache (frequency-weighted)" and "5. No match"
fuzzy_cache_step(key) ==
    LET entries == cache.entries
        Touched(k, best) == Outcome(DictPut(entries, k, best), best, RatFromInt(0), 4)
        Answer(fc) ==
            IF fc.found
            THEN [Touched(fc.key, touch_hit(entries.val[fc.key])) EXCEPT !.conf = fc.score]
            ELSE Outcome(entries, NoRecord, RatFromInt(0), 5)
    IN  Answer(fuzzy_search_cache(key))

\* as the exact cache step, but an unresolved entry falls through to the
\* fuzzy cache step
exact_cache_step_falls_through(key) ==
    LET Answer(entry) ==
            IF Get(entry, "resolved", FALSE)
            THEN Outcome(DictPut(cache.entries, key, entry), entry, RatFromInt(100), 3)
            ELSE fuzzy_cache_step(key)
    IN  Answer(touch_hit(cache.entries.val[key]))

\* as the exact cache step, but an unresolved entry is left untouched
exact_cache_step_resolved_only(key) ==
    LET Answer(entry) ==
            IF Get(entry, "resolved", FALSE)
            THEN Outcome(DictPut(cache.entries, key, entry), entry, RatFromInt(100), 3)
            ELSE Outcome(cache.entries, NoRecord, RatFromInt(-1), 3)
    IN  Answer(touch_hit(cache.entries.val[key]))

\* lookup, "3. Exact cache", on a key of the entries
exact_cache_step(key) ==
    LET Answer(entry) ==
            IF Get(entry, "resolved", FALSE)
            THEN Outcome(DictPut(cache.entries, key, entry), entry, RatFromInt(100), 3)
            ELSE Outcome(DictPut(cache.entries, key, entry), NoRecord, RatFromInt(-1), 3)
    IN  Answer(touch_hit(cache.entries.val[key]))

\* as lookup, but the cache is consulted before the overrides
lookup_outcome_cache_first(key) ==
    LET ov == overrides.overrides
        entries == cache.entries
        Fuzzy(fo) ==
            IF fo.data # NoRecord THEN Outcome(entries, fo.data, fo.score, 2)
            ELSE fuzzy_cache_step(key)
    IN  IF key = <<>> THEN Outcome(entries, NoRecord, RatFromInt(0), 0)
        ELSE IF DictHas(entries, key) THEN exact_cache_step(key)
        ELSE IF DictHas(ov, key) THEN Outcome(entries, ov.val[key], RatFromInt(100), 1)
        ELSE Fuzzy(fuzzy_search_overrides(key))

\* as lookup, but both exact matches are tried before both fuzzy searches
lookup_outcome_exact_first(key) ==
    LET ov == overrides.overrides
        entries == cache.entries
        Fuzzy(fo) ==
            IF fo.data # NoRecord THEN Outcome(entries, fo.data, fo.score, 2)
            ELSE fuzzy_cache_step(key)
    IN  IF key = <<>> THEN Outcome(entries, NoRecord, RatFromInt(0), 0)
        ELSE IF DictHas(ov, key) THEN Outcome(entries, ov.val[key], RatFromInt(100), 1)
        ELSE IF DictHas(entries, key) THEN exact_cache_step(key)
        ELSE Fuzzy(fuzzy_search_overrides(key))

\* as lookup, but an exact override match also touches the cache entry of
\* the key
lookup_outcome_touching(key) ==
    LET ov == overrides.overrides
        entries == cache.entries
        AfterExactOverride(fo) ==
            IF fo.data # NoRecord THEN Outcome(entries, fo.data, fo.score, 2)
            ELSE IF DictHas(entries, key) THEN exact_cache_step(key)
            ELSE fuzzy_cache_step(key)
    IN  IF key = <<>> THEN Outcome(entries, NoRecord, RatFromInt(0), 0)
        ELSE IF DictHas(ov, key) /\ DictHas(entries, key)
        THEN Outcome(DictPut(entries, key, touch_hit(entries.val[key])),
                     ov.val[key], RatFromInt(100), 1)
        ELSE IF DictHas(ov, key) THEN Outcome(entries, ov.val[key], RatFromInt(100), 1)
        ELSE AfterExactOverride(fuzzy_search_overrides(key))

\* lookup, after _increment_lookups
lookup_outcome(key) ==
    LET ov == overrides.overrides
        entries == cache.entries
        AfterExactOverride(fo) ==
            IF fo.data # NoRecord THEN Outcome(entries, fo.data, fo.score, 2)
            ELSE IF DictHas(entries, key) THEN exact_cache_step(key)
            ELSE fuzzy_cache_step(key)
    IN  IF key = <<>> THEN Outcome(entries, NoRecord, RatFromInt(0), 0)
        ELSE IF DictHas(ov, key) THEN Outcome(entries, ov.val[key], RatFromInt(100), 1)
        ELSE AfterExactOverride(fuzzy_search_overrides(key))

\* as lookup, but the empty key returns before the call is counted
LookupCountsAfterCheck(raw_text) ==
    LET key == normalize(raw_text)
        Return(out) ==
            /\ Get(cache.meta, "total_lookups", 0) < MaxLookups
            /\ WithinHits(out.entries)
            /\ cache' = IF key = <<>> THEN cache
                        ELSE [increment_lookups(cache) EXCEPT !.entries = out.entries]
            /\ lookup_calls' = lookup_calls + 1
            /\ lastOp' = Call("lookup", key, out.step)
            /\ ret' = Result(out.data, out.conf)
            /\ UNCHANGED <<session, fuzzy_threshold, overrides, cache_keys, override_keys,
                           disk_cache, disk_overrides, clock>>
    IN  Return(lookup_outcome(key))

Lookup(raw_text) ==
    LET key == normalize(raw_text)
        Return(out) ==
            /\ Get(cache.meta, "total_lookups", 0) < MaxLookups
            /\ WithinHits(out.entries)
            /\ cache' = [increment_lookups(cache) EXCEPT !.entries = out.entries]
            /\ lookup_calls' = lookup_calls + 1
            /\ lastOp' = Call("lookup", key, out.step)
            /\ ret' = Result(out.data, out.conf)
            /\ UNCHANGED <<session, fuzzy_threshold, overrides, cache_keys, override_keys,
                           disk_cache, disk_overrides, clock>>
    IN  Return(lookup_outcome(key))

\* as the entry store builds, but first_seen is always the present time
stored_entry_new_first_seen(existing, data, source, now) ==
    [resolved     |-> TRUE,
     lat          |-> Get(data, "lat", None),
     lon          |-> Get(data, "lon", None),
     state        |-> Get(data, "state", ""),
     city         |-> Get(data, "city", ""),
     type         |-> Get(data, "type", ""),
     display_name |-> Get(data, "display_name", ""),
     source       |-> source,
     confidence   |-> Get(data, "confidence", "0.9"),
     hit_count    |-> IF existing # NoRecord /\ DOMAIN existing # {}
                      THEN Get(existing, "hit_count", 0) + 1 ELSE 1,
     first_seen   |-> now,
     last_seen    |-> now]

\* as the entry store builds, but the hit_count starts again at one
stored_entry_counts_from_one(existing, data, source, now) ==
    [resolved     |-> TRUE,
     lat          |-> Get(data, "lat", None),
     lon          |-> Get(data, "lon", None),
     state        |-> Get(data, "state", ""),
     city         |-> Get(data, "city", ""),
     type         |-> Get(data, "type", ""),
     display_name |-> Get(data, "display_name", ""),
     source       |-> source,
     confidence   |-> Get(data, "confidence", "0.9"),
     hit_count    |-> 1,
     first_seen   |-> IF existing # NoRecord /\ DOMAIN existing # {}
                      THEN Get(existing, "first_seen", now) ELSE now,
     last_seen    |-> now]

\* the entry store builds
stored_entry(existing, data, source, now) ==
    [resolved     |-> TRUE,
     lat          |-> Get(data, "lat", None),
     lon          |-> Get(data, "lon", None),
     state        |-> Get(data, "state", ""),
     city         |-> Get(data, "city", ""),
     type         |-> Get(data, "type", ""),
     display_name |-> Get(data, "display_name", ""),
     source       |-> source,
     confidence   |-> Get(data, "confidence", "0.9"),
     hit_count    |-> IF existing # NoRecord /\ DOMAIN existing # {}
                      THEN Get(existing, "hit_count", 0) + 1 ELSE 1,
     first_seen   |-> IF existing # NoRecord /\ DOMAIN existing # {}
                      THEN Get(existing, "first_seen", now) ELSE now,
     last_seen    |-> now]

\* entries.get(key)
DictGet(d, k) == IF DictHas(d, k) THEN d.val[k] ELSE NoRecord

\* as store, but the key is the raw text
StoreRawKey(raw_text, data, source) ==
    LET key == raw_text
        entries == DictPut(cache.entries, key,
                           stored_entry(DictGet(cache.entries, key), data, source, now_iso))
    IN  /\ lastOp' = Call("store", key, 0)
        /\ ret' = NoReturn
        /\ IF key = <<>>
           THEN UNCHANGED <<cache, cache_keys, override_keys>>
           ELSE /\ WithinHits(entries)
                /\ cache' = [cache EXCEPT !.entries = entries,
                                          !.meta = SetField(@, "total_entries", Len(entries.keys))]
                /\ cache_keys' = entries.keys
                /\ override_keys' = overrides.overrides.keys
        /\ UNCHANGED <<session, fuzzy_threshold, overrides, disk_cache, disk_overrides,
                       clock, lookup_calls>>

\* as store, but the empty key is stored like any other
StoreAnyKey(raw_text, data, source) ==
    LET key == normalize(raw_text)
        entries == DictPut(cache.entries, key,
                           stored_entry(DictGet(cache.entries, key), data, source, now_iso))
    IN  /\ lastOp' = Call("store", key, 0)
        /\ ret' = NoReturn
        /\ WithinHits(entries)
        /\ cache' = [cache EXCEPT !.entries = entries,
                                  !.meta = SetField(@, "total_entries", Len(entries.keys))]
        /\ cache_keys' = entries.keys
        /\ override_keys' = overrides.overrides.keys
        /\ UNCHANGED <<session, fuzzy_threshold, overrides, disk_cache, disk_overrides,
                       clock, lookup_calls>>

Store(raw_text, data, source) ==
    LET key == normalize(raw_text)
        entries == DictPut(cache.entries, key,
                           stored_entry(DictGet(cache.entries, key), data, source, now_iso))
    IN  /\ lastOp' = Call("store", key, 0)
        /\ ret' = NoReturn
        /\ IF key = <<>>
           THEN UNCHANGED <<cache, cache_keys, override_keys>>
           ELSE /\ WithinHits(entries)
                /\ cache' = [cache EXCEPT !.entries = entries,
                                          !.meta = SetField(@, "total_entries", Len(entries.keys))]
                /\ cache_keys' = entries.keys
                /\ override_keys' = overrides.overrides.keys
        /\ UNCHANGED <<session, fuzzy_threshold, overrides, disk_cache, disk_overrides,
                       clock, lookup_calls>>

\* as store_unresolvable, but an existing entry is replaced by an unresolved one
StoreUnresolvableOverwrite(raw_text) ==
    LET key == normalize(raw_text)
        entries ==
            DictPut(cache.entries, key,
                    [resolved |-> FALSE,
                     hit_count |-> IF Truthy(cache.entries, key)
                                   THEN Get(cache.entries.val[key], "hit_count", 0) + 1 ELSE 1,
                     first_seen |-> now_iso, last_seen |-> now_iso])
    IN  /\ lastOp' = Call("store_unresolvable", key, 0)
        /\ ret' = NoReturn
        /\ IF key = <<>>
           THEN UNCHANGED <<cache, cache_keys, override_keys>>
           ELSE /\ WithinHits(entries)
                /\ cache' = [cache EXCEPT !.entries = entries,
                                          !.meta = SetField(@, "total_entries", Len(entries.keys))]
                /\ cache_keys' = entries.keys
                /\ override_keys' = overrides.overrides.keys
        /\ UNCHANGED <<session, fuzzy_threshold, overrides, disk_cache, disk_overrides,
                       clock, lookup_calls>>

StoreUnresolvable(raw_text) ==
    LET key == normalize(raw_text)
        entries ==
            IF Truthy(cache.entries, key)
            THEN DictPut(cache.entries, key, touch_hit(cache.entries.val[key]))
            ELSE DictPut(cache.entries, key,
                         [resolved |-> FALSE, hit_count |-> 1,
                          first_seen |-> now_iso, last_seen |-> now_iso])
    IN  /\ lastOp' = Call("store_unresolvable", key, 0)
        /\ ret' = NoReturn
        /\ IF key = <<>>
           THEN UNCHANGED <<cache, cache_keys, override_keys>>
           ELSE /\ WithinHits(entries)
                /\ cache' = [cache EXCEPT !.entries = entries,
                                          !.meta = SetField(@, "total_entries", Len(entries.keys))]
                /\ cache_keys' = entries.keys
                /\ override_keys' = overrides.overrides.keys
        /\ UNCHANGED <<session, fuzzy_threshold, overrides, disk_cache, disk_overrides,
                       clock, lookup_calls>>

\* as add_override, but without _rebuild_keys
AddOverrideNoRebuild(raw_text, data, reason) ==
    LET key == normalize(raw_text)
        entry == IF reason # "" THEN SetField(data, "reason", reason) ELSE data
        ovs == DictPut(overrides.overrides, key, entry)
    IN  /\ lastOp' = CallAddOverride(key, data, reason)
        /\ ret' = NoReturn
        /\ IF key = <<>>
           THEN UNCHANGED overrides
           ELSE overrides' = [overrides EXCEPT !.overrides = ovs]
        /\ UNCHANGED <<session, fuzzy_threshold, cache, cache_keys, override_keys,
                       disk_cache, disk_overrides, clock, lookup_calls>>

\* as add_override, but the new entry is merged into the override the key had
AddOverrideMerge(raw_text, data, reason) ==
    LET key == normalize(raw_text)
        entry == IF reason # "" THEN SetField(data, "reason", reason) ELSE data
        previous == IF DictHas(overrides.overrides, key)
                    THEN overrides.overrides.val[key] ELSE entry
        merged == [x \in (DOMAIN previous) \cup (DOMAIN entry) |->
                      IF x \in DOMAIN entry THEN entry[x] ELSE previous[x]]
        ovs == DictPut(overrides.overrides, key, merged)
    IN  /\ lastOp' = CallAddOverride(key, data, reason)
        /\ ret' = NoReturn
        /\ IF key = <<>>
           THEN UNCHANGED <<overrides, cache_keys, override_keys>>
           ELSE /\ overrides' = [overrides EXCEPT !.overrides = ovs]
                /\ cache_keys' = cache.entries.keys
                /\ override_keys' = ovs.keys
        /\ UNCHANGED <<session, fuzzy_threshold, cache, disk_cache, disk_overrides,
                       clock, lookup_calls>>

AddOverride(raw_text, data, reason) ==
    LET key == normalize(raw_text)
        entry == IF reason # "" THEN SetField(data, "reason", reason) ELSE data
        ovs == DictPut(overrides.overrides, key, entry)
    IN  /\ lastOp' = CallAddOverride(key, data, reason)
        /\ ret' = NoReturn
        /\ IF key = <<>>
           THEN UNCHANGED <<overrides, cache_keys, override_keys>>
           ELSE /\ overrides' = [overrides EXCEPT !.overrides = ovs]
                /\ cache_keys' = cache.entries.keys
                /\ override_keys' = ovs.keys
        /\ UNCHANGED <<session, fuzzy_threshold, cache, disk_cache, disk_overrides,
                       clock, lookup_calls>>

\* list.sort(key=lambda e: e.get("hit_count", 0), reverse=True), a stable sort
SortByHitsDesc(s) ==
    LET n == Len(s)
        hc(i) == Get(s[i], "hit_count", 0)
        Before(i, j) == hc(i) > hc(j) \/ (hc(i) = hc(j) /\ i < j)
        Pos(i) == 1 + Cardinality({j \in 1..n : Before(j, i)})
    IN  [p \in 1..n |-> s[CHOOSE i \in 1..n : Pos(i) = p]]

\* {"key": k, **v} for every item of the entries, in insertion order
Items(d) == [i \in 1..Len(d.keys) |-> SetField([key |-> d.keys[i]], "entry", d.val[d.keys[i]])]

WithKey(item) ==
    [x \in {"key"} \cup DOMAIN item.entry |->
        IF x \in DOMAIN item.entry THEN item.entry[x] ELSE item.key]

\* [{"key": k, **v} for ... in items]
WithKeys(items) == [i \in 1..Len(items) |-> WithKey(items[i])]

IsResolved(e) == Get(e, "resolved", FALSE)

\* as get_stats, but the sources are counted over all the entries
get_stats_all_sources ==
    LET entries == cache.entries
        resolved == {k \in DOMAIN entries.val : IsResolved(entries.val[k])}
        unresolved == {k \in DOMAIN entries.val : ~IsResolved(entries.val[k])}
        src(k) == Get(entries.val[k], "source", "unknown")
    IN  [total_entries |-> Len(entries.keys),
         resolved      |-> Cardinality(resolved),
         unresolved    |-> Cardinality(unresolved),
         total_lookups |-> Get(cache.meta, "total_lookups", 0),
         overrides     |-> Len(overrides.overrides.keys),
         sources       |-> [x \in {src(k) : k \in DOMAIN entries.val} |->
                               Cardinality({k \in DOMAIN entries.val : src(k) = x})]]

get_stats ==
    LET entries == cache.entries
        resolved == {k \in DOMAIN entries.val : IsResolved(entries.val[k])}
        unresolved == {k \in DOMAIN entries.val : ~IsResolved(entries.val[k])}
        src(k) == Get(entries.val[k], "source", "unknown")
    IN  [total_entries |-> Len(entries.keys),
         resolved      |-> Cardinality(resolved),
         unresolved    |-> Cardinality(unresolved),
         total_lookups |-> Get(cache.meta, "total_lookups", 0),
         overrides     |-> Len(overrides.overrides.keys),
         sources       |-> [x \in {src(k) : k \in resolved} |->
                               Cardinality({k \in resolved : src(k) = x})]]

\* list[:n]
Slice(s, n) ==
    LET stop == IF n >= 0 THEN n ELSE Len(s) + n
    IN  SubSeq(s, 1, IF stop > Len(s) THEN Len(s) ELSE IF stop < 0 THEN 0 ELSE stop)

\* as get_top_locations, but the resolved entries are left in iteration order
get_top_locations_unsorted(n) ==
    LET Keep(item) == IsResolved(item.entry)
    IN  Slice(WithKeys(SelectSeq(Items(cache.entries), Keep)), n)

get_top_locations(n) ==
    LET Keep(item) == IsResolved(item.entry)
    IN  Slice(SortByHitsDesc(WithKeys(SelectSeq(Items(cache.entries), Keep))), n)

\* as get_unresolved, but keys of the overrides are listed as well
get_unresolved_with_overridden ==
    LET Keep(item) == ~IsResolved(item.entry)
    IN  SortByHitsDesc(WithKeys(SelectSeq(Items(cache.entries), Keep)))

get_unresolved ==
    LET Keep(item) == ~IsResolved(item.entry) /\ ~DictHas(overrides.overrides, item.key)
    IN  SortByHitsDesc(WithKeys(SelectSeq(Items(cache.entries), Keep)))

GetStats ==
    /\ lastOp' = Call("get_stats", <<>>, 0)
    /\ ret' = get_stats
    /\ UNCHANGED <<instance, clock, lookup_calls, session>>

GetTopLocations(n) ==
    /\ lastOp' = CallTopLocations(n)
    /\ ret' = get_top_locations(n)
    /\ UNCHANGED <<instance, clock, lookup_calls, session>>

GetUnresolved ==
    /\ lastOp' = Call("get_unresolved", <<>>, 0)
    /\ ret' = get_unresolved
    /\ UNCHANGED <<instance, clock, lookup_calls, session>>

\* as save, but only the cache document is written
SaveCacheOnly ==
    LET doc == [cache EXCEPT !.meta = SetField(@, "total_entries", Len(cache.entries.keys))]
    IN  /\ lastOp' = Call("save", <<>>, 0)
        /\ ret' = NoReturn
        /\ cache' = doc
        /\ disk_cache' = File(json_dump(doc))
        /\ UNCHANGED <<session, fuzzy_threshold, overrides, cache_keys, override_keys,
                       disk_overrides, clock, lookup_calls>>

\* save: both documents are written in full
Save ==
    LET doc == [cache EXCEPT !.meta = SetField(@, "total_entries", Len(cache.entries.keys))]
    IN  /\ lastOp' = Call("save", <<>>, 0)
        /\ ret' = NoReturn
        /\ cache' = doc
        /\ disk_cache' = File(json_dump(doc))
        /\ disk_overrides' = File(json_dump(overrides))
        /\ UNCHANGED <<session, fuzzy_threshold, overrides, cache_keys, override_keys,
                       clock, lookup_calls>>

SaveTargets == {"location_cache.json", "location_overrides.json"}

\* as a failing save, but both files are opened for writing before either
\* document is written
SaveFailsBothOpened(target, opened) ==
    LET doc == [cache EXCEPT !.meta = SetField(@, "total_entries", Len(cache.entries.keys))]
    IN  /\ lastOp' = Call("save", <<>>, 0)
        /\ ret' = Raised("OSError", target)
        /\ cache' = doc
        /\ IF target = "location_cache.json"
           THEN /\ disk_cache' = IF opened THEN Damaged("truncated") ELSE disk_cache
                /\ disk_overrides' = IF opened THEN Damaged("truncated") ELSE disk_overrides
           ELSE /\ disk_cache' = File(json_dump(doc))
                /\ disk_overrides' = IF opened THEN Damaged("truncated") ELSE disk_overrides
        /\ UNCHANGED <<session, fuzzy_threshold, overrides, cache_keys, override_keys,
                       clock, lookup_calls>>

\* save when the write of target fails: open(path, "w") raises and leaves the
\* file as it was, or it succeeds, which empties the file, and json.dump
\* raises part-way; the cache document is written before the overrides
SaveFails(target, opened) ==
    LET doc == [cache EXCEPT !.meta = SetField(@, "total_entries", Len(cache.entries.keys))]
    IN  /\ lastOp' = Call("save", <<>>, 0)
        /\ ret' = Raised("OSError", target)
        /\ cache' = doc
        /\ IF target = "location_cache.json"
           THEN /\ disk_cache' = IF opened THEN Damaged("truncated") ELSE disk_cache
                /\ disk_overrides' = disk_overrides
           ELSE /\ disk_cache' = File(json_dump(doc))
                /\ disk_overrides' = IF opened THEN Damaged("truncated") ELSE disk_overrides
        /\ UNCHANGED <<session, fuzzy_threshold, overrides, cache_keys, override_keys,
                       clock, lookup_calls>>

\* LocationCache(cache_dir, fuzzy_threshold) again on the same directory: the
\* fresh instance takes the place of the old one, unless __init__ raises
Reopen ==
    /\ lastOp' = Call("init", <<>>, 0)
    /\ ret' = init_outcome(disk_cache, disk_overrides)
    /\ IF init_outcome(disk_cache, disk_overrides) = NoReturn
       THEN /\ cache' = LoadDoc(disk_cache, DefaultCache)
            /\ overrides' = LoadDoc(disk_overrides, DefaultOverrides)
            /\ cache_keys' = LoadDoc(disk_cache, DefaultCache).entries.keys
            /\ override_keys' = LoadDoc(disk_overrides, DefaultOverrides).overrides.keys
            /\ lookup_calls' = 0
       ELSE UNCHANGED <<cache, overrides, cache_keys, override_keys, lookup_calls>>
    /\ UNCHANGED <<session, fuzzy_threshold, disk_cache, disk_overrides, clock>>

\* something other than this instance damages or removes one of the two files
Damage(target, file) ==
    /\ lastOp' = Call("damage", <<>>, 0)
    /\ ret' = NoReturn
    /\ IF target = "location_cache.json"
       THEN disk_cache' = file /\ disk_overrides' = disk_overrides
       ELSE disk_cache' = disk_cache /\ disk_overrides' = file
    /\ UNCHANGED <<session, fuzzy_threshold, cache, overrides, cache_keys, override_keys,
                   clock, lookup_calls>>

\* time passes between two calls
Tick ==
    /\ clock < MaxClock
    /\ clock' = clock + 1
    /\ UNCHANGED <<instance, lookup_calls, session, lastOp, ret>>

(***************************************************************************)
(* LocationExtractor, constructed with this cache as its location_cache.    *)
(***************************************************************************)
\* location_name.lower().strip()
lower_strip(text) == Strip([i \in 1..Len(text) |-> Lower(text[i])])

\* AUSTRALIAN_LOCATIONS, cut down to one place
locations_db ==
    DictPut(EmptyDict, <<"b", " ", "a">>,
            [lat |-> "-33.87", lon |-> "151.21", state |-> "NSW", type |-> "city"])

\* bool(d) of an Optional[dict]
IsTruthy(d) == d # NoRecord /\ DOMAIN d # {}

\* the coordinates get_coordinates builds from a record of the cache
cached_coords(cached) ==
    [lat |-> cached.lat, lon |-> cached.lon,
     type |-> Get(cached, "type", ""), state |-> Get(cached, "state", "")]

\* the coordinates get_coordinates builds from a place of the database
db_coords(loc) ==
    [lat |-> loc.lat, lon |-> loc.lon,
     type |-> Get(loc, "type", "city"), state |-> Get(loc, "state", "")]

\* how a call of get_coordinates ends: what it returns, the session cache and
\* the entries it leaves, the lookups it made and what the lookup answered,
\* and whether it read the database, called the geocoder and stored an entry
Coordinates(coords, sess, entries, lookups, conf, db, geocoder, stored) ==
    [coords |-> coords, session |-> sess, entries |-> entries, lookups |-> lookups,
     conf |-> conf, db |-> db, geocoder |-> geocoder, stored |-> stored]

\* self.location_cache.store(location_name, coords, source) on entries
store_in(entries, key, data, source) ==
    IF key = <<>> THEN entries
    ELSE DictPut(entries, key, stored_entry(DictGet(entries, key), data, source, now_iso))

\* self.location_cache.store_unresolvable(loc) on entries
store_unresolvable_in(entries, key) ==
    IF key = <<>> THEN entries
    ELSE IF Truthy(entries, key) THEN DictPut(entries, key, touch_hit(entries.val[key]))
    ELSE DictPut(entries, key,
                 [resolved |-> FALSE, hit_count |-> 1,
                  first_seen |-> now_iso, last_seen |-> now_iso])

\* get_coordinates from "# Try DB" on, after a lookup that left entries
resolve_externally(name, key, geocoded, entries, conf) ==
    IF IsTruthy(DictGet(locations_db, name))
    THEN Coordinates(db_coords(locations_db.val[name]),
                     DictPut(session, name, db_coords(locations_db.val[name])),
                     store_in(entries, key, db_coords(locations_db.val[name]), "location_db"),
                     1, conf, TRUE, FALSE, key # <<>>)
    ELSE IF IsTruthy(geocoded)
    THEN Coordinates(geocoded, DictPut(session, name, geocoded),
                     store_in(entries, key, geocoded, "geocoder"),
                     1, conf, TRUE, TRUE, key # <<>>)
    ELSE Coordinates(NoRecord, session, entries, 1, conf, TRUE, TRUE, FALSE)

\* as get_coordinates, but the sentinel of a known unresolvable key is
\* taken for a miss
get_coordinates_ignoring_sentinel(location_name, geocoded) ==
    LET name == lower_strip(location_name)
        key == normalize(lower_strip(location_name))
        AfterLookup(out) ==
            IF IsTruthy(out.data) /\ Get(out.data, "resolved", TRUE)
            THEN IF {"lat", "lon"} \subseteq DOMAIN out.data
                 THEN Coordinates(cached_coords(out.data),
                                  DictPut(session, name, cached_coords(out.data)),
                                  out.entries, 1, out.conf, FALSE, FALSE, FALSE)
                 ELSE Coordinates(Raised("KeyError", "lat"), session, out.entries,
                                  1, out.conf, FALSE, FALSE, FALSE)
            ELSE resolve_externally(name, key, geocoded, out.entries, out.conf)
    IN  IF DictHas(session, name)
        THEN Coordinates(session.val[name], session, cache.entries,
                         0, RatFromInt(0), FALSE, FALSE, FALSE)
        ELSE AfterLookup(lookup_outcome(key))

\* get_coordinates(location_name, context), with what the geocoder would
\* answer for the name
get_coordinates(location_name, geocoded) ==
    LET name == lower_strip(location_name)
        key == normalize(lower_strip(location_name))
        AfterLookup(out) ==
            IF IsTruthy(out.data) /\ Get(out.data, "resolved", TRUE)
            THEN IF {"lat", "lon"} \subseteq DOMAIN out.data
                 THEN Coordinates(cached_coords(out.data),
                                  DictPut(session, name, cached_coords(out.data)),
                                  out.entries, 1, out.conf, FALSE, FALSE, FALSE)
                 ELSE Coordinates(Raised("KeyError", "lat"), session, out.entries,
                                  1, out.conf, FALSE, FALSE, FALSE)
            ELSE IF RatLess(out.conf, RatFromInt(0))
            THEN Coordinates(NoRecord, session, out.entries,
                             1, out.conf, FALSE, FALSE, FALSE)
            ELSE resolve_externally(name, key, geocoded, out.entries, out.conf)
    IN  IF DictHas(session, name)
        THEN Coordinates(session.val[name], session, cache.entries,
                         0, RatFromInt(0), FALSE, FALSE, FALSE)
        ELSE AfterLookup(lookup_outcome(key))

\* a call on the extractor: the key its lookup was given, whether it made
\* one and with what confidence, and what it went on to do
CallExtractor(op, key, asked, conf, extracted, db, geocoder, stored) ==
    [op |-> op, key |-> key, step |-> 0, asked |-> asked, conf |-> conf,
     extracted |-> extracted, db |-> db, geocoder |-> geocoder, stored |-> stored]

\* the cache after the extractor's calls on it: lookups more calls of
\* _increment_lookups, the entries, and total_entries when something was stored
cache_after(entries, lookups, stored) ==
    [meta |-> SetField(
                 IF stored THEN SetField(cache.meta, "total_entries", Len(entries.keys))
                 ELSE cache.meta,
                 "total_lookups", Get(cache.meta, "total_lookups", 0) + lookups),
     entries |-> entries]

GetCoordinates(location_name, geocoded) ==
    LET Return(gc) ==
            /\ Get(cache.meta, "total_lookups", 0) + gc.lookups <= MaxLookups
            /\ WithinHits(gc.entries)
            /\ cache' = IF gc.lookups = 0 THEN cache
                        ELSE cache_after(gc.entries, gc.lookups, gc.stored)
            /\ cache_keys' = IF gc.stored THEN gc.entries.keys ELSE cache_keys
            /\ override_keys' = IF gc.stored THEN overrides.overrides.keys ELSE override_keys
            /\ session' = gc.session
            /\ lookup_calls' = lookup_calls + gc.lookups
            /\ lastOp' = CallExtractor("get_coordinates",
                                       normalize(lower_strip(location_name)),
                                       gc.lookups = 1, gc.conf, FALSE,
                                       gc.db, gc.geocoder, gc.stored)
            /\ ret' = gc.coords
            /\ UNCHANGED <<fuzzy_threshold, overrides, disk_cache, disk_overrides, clock>>
    IN  Return(get_coordinates(location_name, geocoded))

\* ', '.join(names)
RECURSIVE JoinComma(_)
JoinComma(names) ==
    IF names = <<>> THEN <<>>
    ELSE IF Len(names) = 1 THEN names[1]
    ELSE names[1] \o <<",", " ">> \o JoinComma(Tail(names))

\* the features extract_location_features starts from, without the ones
\* FeatureCalculator and validate_with_confidence fill in and without
\* primary_location
DefaultFeatures ==
    [locations_found |-> 0, location_names |-> <<>>, primary_state |-> "",
     primary_lat |-> "nan", primary_lon |-> "nan",
     extracted_locations |-> <<>>, extracted_count |-> 0]

\* _populate_coord_features
populate_coord_features(features, coords, location_name, geocoded_locations) ==
    [features EXCEPT
        !.locations_found = IF geocoded_locations # <<>> THEN Len(geocoded_locations) ELSE 1,
        !.location_names = IF geocoded_locations # <<>> THEN JoinComma(geocoded_locations)
                           ELSE location_name,
        !.primary_lat = Get(coords, "lat", "nan"),
        !.primary_lon = Get(coords, "lon", "nan"),
        !.primary_state = Get(coords, "state", "")]

\* how a call of extract_location_features ends
Features(features, sess, entries, lookups, conf, extracted, db, geocoder, stored) ==
    [features |-> features, session |-> sess, entries |-> entries, lookups |-> lookups,
     conf |-> conf, extracted |-> extracted, db |-> db, geocoder |-> geocoder,
     stored |-> stored]

\* extract_location_features from "locations = self.extract_locations(text)"
\* on, for the locations the strategy finds in the text (one at most), what
\* the geocoder would answer and what is_valid_location would say.  The
\* lookup of the text that came before, if any, left the entries as they
\* were.  The last get_coordinates(primary) is answered by the session cache.
extract_and_resolve(text, locations, geocoded, valid, lookups, conf) ==
    LET extracted == [DefaultFeatures EXCEPT !.extracted_locations = JoinComma(locations),
                                             !.extracted_count = Len(locations)]
        Resolved(gc) ==
            IF "raised" \in DOMAIN gc.coords
            THEN Features(gc.coords, gc.session, gc.entries, lookups + gc.lookups, conf,
                          TRUE, gc.db, gc.geocoder, gc.stored)
            ELSE IF IsTruthy(gc.coords) /\ valid
            THEN Features(populate_coord_features(extracted, gc.coords, locations[1], locations),
                          gc.session, gc.entries, lookups + gc.lookups, conf,
                          TRUE, gc.db, gc.geocoder, gc.stored)
            ELSE Features(extracted, gc.session,
                          store_unresolvable_in(gc.entries, normalize(locations[1])),
                          lookups + gc.lookups, conf,
                          TRUE, gc.db, gc.geocoder,
                          gc.stored \/ normalize(locations[1]) # <<>>)
    IN  IF text = <<>>
        THEN Features(DefaultFeatures, session, cache.entries, lookups, conf,
                      FALSE, FALSE, FALSE, FALSE)
        ELSE IF locations = <<>>
        THEN Features(DefaultFeatures, session, cache.entries, lookups, conf,
                      TRUE, FALSE, FALSE, FALSE)
        ELSE Resolved(get_coordinates(locations[1], geocoded))

\* extract_location_features(text), allow_online_fallback left at False
extract_location_features(text, locations, geocoded, valid) ==
    LET AfterLookup(out) ==
            IF IsTruthy(out.data) /\ Get(out.data, "resolved", TRUE)
               /\ RatLess(RatFromInt(0), out.conf)
            THEN Features(populate_coord_features(DefaultFeatures, out.data, <<>>, <<>>),
                          session, out.entries, 1, out.conf, FALSE, FALSE, FALSE, FALSE)
            ELSE IF RatLess(out.conf, RatFromInt(0))
            THEN Features(DefaultFeatures, session, out.entries, 1, out.conf,
                          FALSE, FALSE, FALSE, FALSE)
            ELSE extract_and_resolve(text, locations, geocoded, valid, 1, out.conf)
    IN  IF text = <<>>
        THEN extract_and_resolve(text, locations, geocoded, valid, 0, RatFromInt(0))
        ELSE AfterLookup(lookup_outcome(normalize(text)))

ExtractLocationFeatures(text, locations, geocoded, valid) ==
    LET Return(ef) ==
            /\ Get(cache.meta, "total_lookups", 0) + ef.lookups <= MaxLookups
            /\ WithinHits(ef.entries)
            /\ cache' = IF ef.lookups = 0 THEN cache
                        ELSE cache_after(ef.entries, ef.lookups, ef.stored)
            /\ cache_keys' = IF ef.stored THEN ef.entries.keys ELSE cache_keys
            /\ override_keys' = IF ef.stored THEN overrides.overrides.keys ELSE override_keys
            /\ session' = ef.session
            /\ lookup_calls' = lookup_calls + ef.lookups
            /\ lastOp' = CallExtractor("extract_location_features", normalize(text),
                                       text # <<>>, ef.conf, ef.extracted,
                                       ef.db, ef.geocoder, ef.stored)
            /\ ret' = ef.features
            /\ UNCHANGED <<fuzzy_threshold, overrides, disk_cache, disk_overrides, clock>>
    IN  Return(extract_location_features(text, locations, geocoded, valid))

(***************************************************************************)
(* The extractor on a fresh cache directory.                                *)
(***************************************************************************)
ExtractorNames == {TextBA, TextABC}
ExtractorTexts == {TextABC, TextCD, TextEmpty}
ExtractorLocations == {<<>>, <<TextBA>>}
ExtractorUnresolvableTexts == {TextBA, TextABC}
ExtractorOverrideTexts == {TextABC}

\* what the geocoding provider answers: nothing, or coordinates
GeocoderAnswers == {NoRecord, SwanHill}

InitExtractor == Construct(85, NoFile, NoFile)

ExtractorStoreUnresolvable == \E raw \in ExtractorUnresolvableTexts : StoreUnresolvable(raw)

ExtractorAddOverride == \E raw \in ExtractorOverrideTexts : AddOverride(raw, RightCity, "")

ExtractorGetCoordinates ==
    \E name \in ExtractorNames, geocoded \in GeocoderAnswers :
        GetCoordinates(name, geocoded)

ExtractorExtractLocationFeatures ==
    \E text \in ExtractorTexts, locations \in ExtractorLocations,
       geocoded \in GeocoderAnswers, valid \in BOOLEAN :
        ExtractLocationFeatures(text, locations, geocoded, valid)

NextExtractor ==
    \/ ExtractorStoreUnresolvable
    \/ ExtractorAddOverride
    \/ ExtractorGetCoordinates
    \/ ExtractorExtractLocationFeatures

SpecExtractor == InitExtractor /\ [][NextExtractor]_vars

(***************************************************************************)
(* The resolution engine on a fresh cache directory.                        *)
(***************************************************************************)
Init == \E t \in Thresholds : Construct(t, NoFile, NoFile)

DoStore == \E raw \in StoreTexts, data \in StoreData, source \in Sources : Store(raw, data, source)

DoStoreUnresolvable == \E raw \in StoreTexts : StoreUnresolvable(raw)

DoAddOverride ==
    \E raw \in OverrideTexts, data \in OverrideData, reason \in Reasons :
        AddOverride(raw, data, reason)

DoLookup == \E raw \in LookupTexts : Lookup(raw)

Next ==
    \/ DoStore
    \/ DoStoreUnresolvable
    \/ DoAddOverride
    \/ DoLookup
    \/ Tick

Spec == Init /\ [][Next]_vars

(***************************************************************************)
(* The whole public API, with the files, on a fresh cache directory.        *)
(***************************************************************************)
ApiStoreTexts == {TextBA}
ApiUnresolvableTexts == {TextBA, TextABC}
ApiLookupTexts == {TextBA, TextAB, TextStar}
ApiOverrideTexts == {TextBA}
TopN == {1}

InitApi == Construct(85, NoFile, NoFile)

ApiStore ==
    \E raw \in ApiStoreTexts, data \in StoreData, source \in Sources : Store(raw, data, source)

ApiStoreUnresolvable == \E raw \in ApiUnresolvableTexts : StoreUnresolvable(raw)

ApiLookup == \E raw \in ApiLookupTexts : Lookup(raw)

ApiGetTopLocations == \E n \in TopN : GetTopLocations(n)

ApiAddOverride ==
    \E raw \in ApiOverrideTexts, data \in OverrideData, reason \in Reasons :
        AddOverride(raw, data, reason)

NextApi ==
    \/ ApiStore
    \/ ApiStoreUnresolvable
    \/ ApiAddOverride
    \/ ApiLookup
    \/ GetStats
    \/ ApiGetTopLocations
    \/ GetUnresolved
    \/ Save
    \/ Tick

SpecApi == InitApi /\ [][NextApi]_vars

(***************************************************************************)
(* The resolution engine on a cache directory that an earlier run saved.    *)
(***************************************************************************)
\* the entries an earlier run leaves after one call per key, at time 0
RECURSIVE EarlierEntries(_, _)
EarlierEntries(keys, entry) ==
    IF keys = <<>> THEN EmptyDict
    ELSE DictPut(EarlierEntries(SubSeq(keys, 1, Len(keys) - 1), entry), keys[Len(keys)], entry)

EarlierDoc(entry) ==
    [meta    |-> [version |-> 1, total_entries |-> Len(FillerKeys), total_lookups |-> 0],
     entries |-> EarlierEntries(FillerKeys, entry)]

\* after store_unresolvable on every filler key, then save
UnresolvedDoc ==
    EarlierDoc([resolved |-> FALSE, hit_count |-> 1, first_seen |-> 0, last_seen |-> 0])

\* after store on every filler key, then save
ResolvedDoc == EarlierDoc(stored_entry(NoRecord, SwanHill, "auto", 0))

LoadedDocs == {UnresolvedDoc, ResolvedDoc}

LoadedStoreTexts == {TextBA}
LoadedLookupTexts == {TextABC, TextBA}

InitLoaded == \E doc \in LoadedDocs : Construct(85, File(json_dump(doc)), NoFile)

LoadedStore ==
    \E raw \in LoadedStoreTexts, data \in StoreData, source \in Sources : Store(raw, data, source)

LoadedStoreUnresolvable == \E raw \in LoadedStoreTexts : StoreUnresolvable(raw)

LoadedLookup == \E raw \in LoadedLookupTexts : Lookup(raw)

NextLoaded ==
    \/ LoadedStore
    \/ LoadedStoreUnresolvable
    \/ DoAddOverride
    \/ LoadedLookup
    \/ Tick

SpecLoaded == InitLoaded /\ [][NextLoaded]_vars

(***************************************************************************)
(* The entry store and the reports, over the data callers can pass.         *)
(***************************************************************************)
\* a data dictionary without coordinates
CityOnly == [state |-> "NSW", city |-> "Dubbo"]

InputStoreData == {SwanHill, CityOnly}
InputOverrideData == {RightCity, SwanHill}
InputSources == {"location_db", "geocoder"}
InputReasons == {"", "wrong state"}
InputStoreTexts == {TextBA, TextABC}
InputUnresolvableTexts == {TextABC}
InputOverrideTexts == {TextBA}
InputLookupTexts == {TextBA}
InputTopN == {1, 2}

InitInputs == Construct(85, NoFile, NoFile)

InputStore ==
    \E raw \in InputStoreTexts, data \in InputStoreData, source \in InputSources :
        Store(raw, data, source)

InputStoreUnresolvable == \E raw \in InputUnresolvableTexts : StoreUnresolvable(raw)

InputAddOverride ==
    \E raw \in InputOverrideTexts, data \in InputOverrideData, reason \in InputReasons :
        AddOverride(raw, data, reason)

InputLookup == \E raw \in InputLookupTexts : Lookup(raw)

InputGetTopLocations == \E n \in InputTopN : GetTopLocations(n)

NextInputs ==
    \/ InputStore
    \/ InputStoreUnresolvable
    \/ InputAddOverride
    \/ InputLookup
    \/ GetStats
    \/ InputGetTopLocations

SpecInputs == InitInputs /\ [][NextInputs]_vars

(***************************************************************************)
(* One cache directory over several instances, with failing writes and      *)
(* damaged files.                                                           *)
(***************************************************************************)
PersistStoreTexts == {TextBA}
PersistUnresolvableTexts == {TextABC}
PersistOverrideTexts == {TextAB}
PersistLookupTexts == {TextBA, TextABC, TextAB}

InitPersist == Construct(85, NoFile, NoFile)

PersistStore ==
    \E raw \in PersistStoreTexts, data \in StoreData, source \in Sources :
        Store(raw, data, source)

PersistStoreUnresolvable == \E raw \in PersistUnresolvableTexts : StoreUnresolvable(raw)

PersistAddOverride ==
    \E raw \in PersistOverrideTexts, data \in OverrideData, reason \in Reasons :
        AddOverride(raw, data, reason)

PersistLookup == \E raw \in PersistLookupTexts : Lookup(raw)

PersistSaveFails == \E target \in SaveTargets, opened \in BOOLEAN : SaveFails(target, opened)

PersistDamage ==
    \E target \in SaveTargets, file \in {NoFile} \cup {Damaged(kind) : kind \in DamageKinds} :
        Damage(target, file)

NextPersist ==
    \/ PersistStore
    \/ PersistStoreUnresolvable
    \/ PersistAddOverride
    \/ PersistLookup
    \/ Save
    \/ PersistSaveFails
    \/ Reopen
    \/ PersistDamage

SpecPersist == InitPersist /\ [][NextPersist]_vars

(***************************************************************************)
(* The normalizer on its own.                                               *)
(***************************************************************************)
NormalizeAlphabet == {"a", "B", " ", "\t", "*", "'"}

TextFH == <<"F", "H", "*", " ", "L", "A", "B">>                        \* "FH* LAB"
TextSpaced == <<" ", " ", "a", "b", " ", " ", " ", "c", "d", " ", " ">>  \* "  ab   cd  "
TextDots == <<"B", ".", "A", ".", "-", "b", "e", "d">>                  \* "B.A.-bed"

NormalizeTexts ==
    UNION {[1..n -> NormalizeAlphabet] : n \in 0..MaxTextLen}
        \cup {TextFH, TextSpaced, TextDots}

\* a call of _normalize, with the text it was given
CallNormalize(text) == [op |-> "normalize", key |-> <<>>, step |-> 0, text |-> text]

\* LocationCache._normalize(text), a static method
Normalize(text) ==
    /\ lastOp' = CallNormalize(text)
    /\ ret' = normalize(text)
    /\ UNCHANGED <<instance, clock, lookup_calls, session>>

InitNormalize == Construct(85, NoFile, NoFile)

NextNormalize == \E text \in NormalizeTexts : Normalize(text)

SpecNormalize == InitNormalize /\ [][NextNormalize]_vars

(***************************************************************************)
(* Several overrides that score differently against one query.             *)
(***************************************************************************)
RankedOverrideTexts == {TextBA, TextABC}
RankedStoreTexts == {TextAB}
RankedLookupTexts == {TextAB}

InitRanked == \E threshold \in Thresholds : Construct(threshold, NoFile, NoFile)

RankedAddOverride ==
    \E raw \in RankedOverrideTexts, data \in InputOverrideData :
        AddOverride(raw, data, "")

RankedStore == \E raw \in RankedStoreTexts : Store(raw, SwanHill, "auto")

RankedLookup == \E raw \in RankedLookupTexts : Lookup(raw)

NextRanked ==
    \/ RankedAddOverride
    \/ RankedStore
    \/ RankedLookup

SpecRanked == InitRanked /\ [][NextRanked]_vars

(***************************************************************************)
(* A key that is first stored as unresolved and resolved later.             *)
(***************************************************************************)
PromoteTexts == {TextCD}

InitPromote == Construct(85, NoFile, NoFile)

PromoteStoreUnresolvable == \E raw \in PromoteTexts : StoreUnresolvable(raw)

PromoteStore ==
    \E raw \in PromoteTexts, data \in InputStoreData : Store(raw, data, "geocoder")

PromoteAddOverride == \E raw \in PromoteTexts : AddOverride(raw, RightCity, "")

PromoteLookup == \E raw \in PromoteTexts : Lookup(raw)

NextPromote ==
    \/ PromoteStoreUnresolvable
    \/ PromoteStore
    \/ PromoteAddOverride
    \/ PromoteLookup
    \/ GetUnresolved
    \/ Save
    \/ Tick

SpecPromote == InitPromote /\ [][NextPromote]_vars

(***************************************************************************)
(* Properties.                                                              *)
(***************************************************************************)
Entries == cache.entries

Overrides == overrides.overrides

\* score >= fuzzy_threshold
AtThreshold(score) == ~RatLess(score, RatFromInt(fuzzy_threshold))

\* this step is a call of op: every call leaves the clock alone and sets lastOp
Called(op) == clock' = clock /\ lastOp'.op = op

\* some override key scores at or above the threshold against k
OverrideMatches(k) == \E o \in DOMAIN Overrides.val : AtThreshold(scorer(k, o))

\* the resolved cache keys that score at or above the threshold against k
ResolvedMatches(k) ==
    {j \in DOMAIN Entries.val : IsResolved(Entries.val[j]) /\ AtThreshold(scorer(k, j))}

\* the unresolved cache keys that score at or above the threshold against k
UnresolvedMatches(k) ==
    {j \in DOMAIN Entries.val : ~IsResolved(Entries.val[j]) /\ AtThreshold(scorer(k, j))}

\* the entry after one hit at the present time
Hit(entry) == [entry EXCEPT !.hit_count = @ + 1, !.last_seen = clock]

\* every entry but those of the keys in except is left as it was
OthersUnchanged(except) ==
    /\ cache'.entries.keys = Entries.keys
    /\ \A j \in (DOMAIN Entries.val) \ except : cache'.entries.val[j] = Entries.val[j]

\* C1: a lookup of a non-empty key that is a key of the overrides and a
\* resolved entry of the cache with different data returns the override's
\* data with confidence 100.0, never the entry's data.
C1_OverrideSupremacy ==
    [][Called("lookup") =>
        LET k == lastOp'.key
        IN  (/\ k # <<>>
             /\ DictHas(Overrides, k)
             /\ DictHas(Entries, k)
             /\ IsResolved(Entries.val[k])
             /\ Entries.val[k] # Overrides.val[k])
            => /\ ret' = Result(Overrides.val[k], RatFromInt(100))
               /\ ret'.data # cache'.entries.val[k]]_vars

C1_Witness ==
    /\ lastOp.op = "lookup"
    /\ lastOp.key # <<>>
    /\ DictHas(Overrides, lastOp.key)
    /\ DictHas(Entries, lastOp.key)
    /\ IsResolved(Entries.val[lastOp.key])
    /\ ret = Result(Overrides.val[lastOp.key], RatFromInt(100))

\* C2: a lookup of a non-empty key that no override matches, exactly or
\* fuzzily, and whose cache entry is unresolved returns exactly (None, -1.0)
\* and touches no other entry, whatever resolved keys score at or above the
\* threshold against it.
C2_UnresolvableShortCircuit ==
    [][Called("lookup") =>
        LET k == lastOp'.key
        IN  (/\ k # <<>>
             /\ ~DictHas(Overrides, k)
             /\ ~OverrideMatches(k)
             /\ DictHas(Entries, k)
             /\ ~IsResolved(Entries.val[k]))
            => /\ ret' = Result(NoRecord, RatFromInt(-1))
               /\ OthersUnchanged({k})]_vars

C2_Witness ==
    /\ lastOp.op = "lookup"
    /\ ret = Result(NoRecord, RatFromInt(-1))
    /\ DictHas(Entries, lastOp.key)
    /\ ~IsResolved(Entries.val[lastOp.key])
    /\ ResolvedMatches(lastOp.key) # {}

\* C3: a resolved cache key stays a resolved cache key in every step, and
\* store_unresolvable on a resolved key leaves the entry as it was but for
\* hit_count, which grows by one, and last_seen, which becomes the present
\* time.
C3_NoDowngrade ==
    [][/\ \A k \in DOMAIN Entries.val :
            IsResolved(Entries.val[k])
            => DictHas(cache'.entries, k) /\ IsResolved(cache'.entries.val[k])
       /\ Called("store_unresolvable") =>
            LET k == lastOp'.key
            IN  (DictHas(Entries, k) /\ IsResolved(Entries.val[k]))
                => /\ cache'.entries.val[k] = Hit(Entries.val[k])
                   /\ OthersUnchanged({k})]_vars

C3_Witness ==
    /\ lastOp.op = "store_unresolvable"
    /\ DictHas(Entries, lastOp.key)
    /\ IsResolved(Entries.val[lastOp.key])
    /\ Entries.val[lastOp.key].lat = SwanHill.lat
    /\ Entries.val[lastOp.key].hit_count = 2
    /\ Entries.val[lastOp.key].first_seen = 0
    /\ Entries.val[lastOp.key].last_seen = 1

\* this step is a lookup that got as far as the fuzzy cache search
ReachesFuzzyCache == Called("lookup") /\ lastOp'.step \in {4, 5}

\* C4: when a lookup reaches the fuzzy cache search, the entry it returns is,
\* among all the resolved cache keys that score at or above the threshold
\* against the query, one with the highest hit_count and, among those, with
\* the highest score.
C4_FrequencyTieBreak ==
    [][(ReachesFuzzyCache /\ ResolvedMatches(lastOp'.key) # {}) =>
        LET k == lastOp'.key
            hc(j) == Get(Entries.val[j], "hit_count", 0)
        IN  \E b \in ResolvedMatches(k) :
               /\ \A q \in ResolvedMatches(k) :
                     \/ hc(b) > hc(q)
                     \/ hc(b) = hc(q) /\ ~RatLess(scorer(k, b), scorer(k, q))
               /\ ret' = Result(Hit(Entries.val[b]), scorer(k, b))]_vars

\* C5: the candidates of the fuzzy cache search are the resolved cache keys:
\* the search misses only when no resolved cache key scores at or above the
\* threshold against the query, however many unresolved keys there are.
C5_ResolvedPoolOnly ==
    [][(ReachesFuzzyCache /\ ret' = Result(NoRecord, RatFromInt(0)))
        => ResolvedMatches(lastOp'.key) = {}]_vars

\* the precondition of C6: k is not an exact override key, is an exact key of
\* the cache and some override key scores at or above the threshold
FuzzyOverrideOverCache(k) ==
    /\ k # <<>>
    /\ ~DictHas(Overrides, k)
    /\ DictHas(Entries, k)
    /\ OverrideMatches(k)

\* C6 as stated: such a lookup returns the matching override's data with the
\* fuzzy score as confidence, not the cache entry and not 100.0.
C6_AsStated ==
    [][(Called("lookup") /\ FuzzyOverrideOverCache(lastOp'.key)) =>
        LET k == lastOp'.key
        IN  /\ \E o \in DOMAIN Overrides.val :
                  /\ AtThreshold(scorer(k, o))
                  /\ ret' = Result(Overrides.val[o], scorer(k, o))
            /\ ret'.data # cache'.entries.val[k]
            /\ ret'.conf # RatFromInt(100)]_vars

\* C6, amended: such a lookup returns the matching override's data with the
\* fuzzy score as confidence and leaves the cache entry untouched; the
\* confidence is 100.0 only when the key and the override key have the same
\* sorted tokens.
C6_FuzzyOverrideFirst ==
    [][(Called("lookup") /\ FuzzyOverrideOverCache(lastOp'.key)) =>
        LET k == lastOp'.key
        IN  /\ \E o \in DOMAIN Overrides.val :
                  /\ AtThreshold(scorer(k, o))
                  /\ ret' = Result(Overrides.val[o], scorer(k, o))
                  /\ ret'.conf = RatFromInt(100)
                     => SortTokens(Split(k)) = SortTokens(Split(o))
            /\ ret'.data # cache'.entries.val[k]
            /\ cache'.entries = Entries]_vars

C6_Witness ==
    /\ lastOp.op = "lookup"
    /\ FuzzyOverrideOverCache(lastOp.key)
    /\ ret.data \in {Overrides.val[o] : o \in DOMAIN Overrides.val}
    /\ RatLess(ret.conf, RatFromInt(100))
    /\ AtThreshold(ret.conf)

\* the precondition of the second half of C7: the query is no cache key, no
\* override matches it, and the cache keys that score at or above the
\* threshold against it are all unresolved
OnlyUnresolvedMatch(k) ==
    /\ k # <<>>
    /\ ~DictHas(Overrides, k)
    /\ ~OverrideMatches(k)
    /\ ~DictHas(Entries, k)
    /\ ResolvedMatches(k) = {}
    /\ UnresolvedMatches(k) # {}

\* C7: every record a lookup returns from the cache, by exact or by fuzzy
\* match, is a resolved entry of the cache, and a query that fuzzy-matches
\* only unresolved cache keys and no override returns (None, 0.0).
C7_NeverUnresolved ==
    [][Called("lookup") =>
        LET k == lastOp'.key
        IN  /\ (lastOp'.step \in {3, 4} /\ ret'.data # NoRecord)
               => \E j \in DOMAIN Entries.val :
                     /\ IsResolved(Entries.val[j])
                     /\ ret'.data = cache'.entries.val[j]
                     /\ IsResolved(ret'.data)
            /\ OnlyUnresolvedMatch(k) => ret' = Result(NoRecord, RatFromInt(0))]_vars

C7_Witness ==
    /\ lastOp.op = "lookup"
    /\ OnlyUnresolvedMatch(lastOp.key)
    /\ ret = Result(NoRecord, RatFromInt(0))

\* C8: a fuzzy cache hit, like an exact cache hit, adds one to the hit_count
\* of the entry it answers with, sets its last_seen to the present time,
\* leaves every other entry as it was, and returns the record with the new
\* hit_count.
C8_FuzzyHitTouches ==
    [][Called("lookup") =>
        /\ lastOp'.step = 4
           => \E b \in DOMAIN Entries.val :
                 /\ b # lastOp'.key
                 /\ cache'.entries.val[b] = Hit(Entries.val[b])
                 /\ OthersUnchanged({b})
                 /\ ret'.data = cache'.entries.val[b]
                 /\ ret'.data.hit_count = Entries.val[b].hit_count + 1
        /\ lastOp'.step = 3
           => /\ cache'.entries.val[lastOp'.key] = Hit(Entries.val[lastOp'.key])
              /\ OthersUnchanged({lastOp'.key})]_vars

C8_Witness ==
    /\ lastOp.op = "lookup"
    /\ lastOp.step = 4
    /\ Len(Entries.keys) = 2
    /\ ret.data.hit_count = 2
    /\ ret.data.first_seen = 0
    /\ ret.data.last_seen = 1
    /\ \E b \in DOMAIN Entries.val : Entries.val[b] = ret.data

\* C9: on a fresh cache total_lookups is the number of lookup calls made.
C9_TotalLookups == Get(cache.meta, "total_lookups", 0) = lookup_calls

\* a lookup of the empty key and a lookup answered by an override, counted
C9_Witness ==
    /\ lastOp.op = "lookup"
    /\ lastOp.step = 0
    /\ lookup_calls = 2
    /\ cache.meta.total_lookups = 2
    /\ Overrides.keys # <<>>

\* C10: a lookup returns (record, c) with c > 0, (None, 0.0) or (None, -1.0);
\* with a record, c is 100.0 for an exact match and a score at or above
\* fuzzy_threshold for a fuzzy one.
C10_ResultShapes ==
    lastOp.op = "lookup" =>
        /\ ret.data # NoRecord <=> RatLess(RatFromInt(0), ret.conf)
        /\ ret.data = NoRecord => ret.conf \in {RatFromInt(0), RatFromInt(-1)}
        /\ ret.data # NoRecord =>
              \/ lastOp.step \in {1, 3} /\ ret.conf = RatFromInt(100)
              \/ /\ lastOp.step \in {2, 4}
                 /\ AtThreshold(ret.conf)
                 /\ ~RatLess(RatFromInt(100), ret.conf)

C10_Witness ==
    /\ lastOp.op = "lookup"
    /\ lastOp.step = 2
    /\ fuzzy_threshold = 85
    /\ ret.data = RightCity
    /\ ret.conf = Rat(600, 7)

\* C11: store on a non-empty key leaves a resolved entry under the key whose
\* last_seen is the present time; on a new key its hit_count is 1 and its
\* first_seen the present time, on an existing key its hit_count is the
\* previous one plus one and its first_seen is kept; no other entry changes.
C11_StoreUpserts ==
    [][(Called("store") /\ lastOp'.key # <<>>) =>
        LET k == lastOp'.key
            e == cache'.entries.val[k]
        IN  /\ DictHas(cache'.entries, k)
            /\ IsResolved(e)
            /\ e.last_seen = clock
            /\ IF DictHas(Entries, k)
               THEN /\ e.hit_count = Entries.val[k].hit_count + 1
                    /\ e.first_seen = Entries.val[k].first_seen
                    /\ cache'.entries.keys = Entries.keys
               ELSE /\ e.hit_count = 1
                    /\ e.first_seen = clock
                    /\ cache'.entries.keys = Append(Entries.keys, k)
            /\ \A j \in (DOMAIN Entries.val) \ {k} : cache'.entries.val[j] = Entries.val[j]]_vars

\* the second store of a key, one second after the first
C11_Witness ==
    /\ lastOp.op = "store"
    /\ lastOp.key # <<>>
    /\ IsResolved(Entries.val[lastOp.key])
    /\ Entries.val[lastOp.key].hit_count = MaxHits
    /\ Entries.val[lastOp.key].first_seen = 0
    /\ Entries.val[lastOp.key].last_seen = 1

\* C12: in every step every entry of the cache has an integer hit_count of
\* at least 1 and a last_seen no earlier than its first_seen, and every key
\* the cache had stays with a hit_count no smaller, the same first_seen and a
\* last_seen no earlier than before.
C12_EntryMonotone ==
    [][/\ \A k \in DOMAIN cache'.entries.val :
            LET e == cache'.entries.val[k]
            IN  /\ e.hit_count \in Nat
                /\ e.hit_count >= 1
                /\ e.last_seen >= e.first_seen
       /\ \A k \in DOMAIN Entries.val :
            /\ DictHas(cache'.entries, k)
            /\ cache'.entries.val[k].hit_count >= Entries.val[k].hit_count
            /\ cache'.entries.val[k].first_seen = Entries.val[k].first_seen
            /\ cache'.entries.val[k].last_seen >= Entries.val[k].last_seen]_vars

\* an entry created at time 0 that a later lookup hit at time 1
C12_Witness ==
    /\ lastOp.op = "lookup"
    /\ lastOp.step = 3
    /\ Entries.val[lastOp.key].hit_count = MaxHits
    /\ Entries.val[lastOp.key].first_seen = 0
    /\ Entries.val[lastOp.key].last_seen = 1
    /\ disk_cache # NoFile

\* the entry has a coordinate value under the field
HasCoordinate(e, f) == f \in DOMAIN e /\ e[f] # None

\* C13: every resolved entry has a lat and a lon value, and every unresolved
\* entry has neither field.
C13_NeverPartial ==
    \A k \in DOMAIN Entries.val :
        LET e == Entries.val[k]
        IN  IF IsResolved(e)
            THEN HasCoordinate(e, "lat") /\ HasCoordinate(e, "lon")
            ELSE "lat" \notin DOMAIN e /\ "lon" \notin DOMAIN e

\* C14: a call of store, store_unresolvable or add_override whose text
\* normalizes to the empty key leaves the cache document, the overrides and
\* both key lists as they were; a lookup of such a text returns (None, 0.0)
\* at the empty-key check and leaves the entries and the overrides as they were.
C14_EmptyKeySentinel ==
    [][(clock' = clock /\ lastOp'.key = <<>>) =>
        /\ lastOp'.op \in {"store", "store_unresolvable", "add_override"}
           => /\ cache' = cache
              /\ overrides' = overrides
              /\ cache_keys' = cache_keys
              /\ override_keys' = override_keys
        /\ lastOp'.op = "lookup"
           => /\ ret' = Result(NoRecord, RatFromInt(0))
              /\ lastOp'.step = 0
              /\ cache'.entries = Entries
              /\ overrides' = overrides
              /\ cache_keys' = cache_keys
              /\ override_keys' = override_keys]_vars

\* a store of an empty key on a cache that has entries and overrides
C14_Witness ==
    /\ lastOp = Call("store", <<>>, 0)
    /\ Entries.keys # <<>>
    /\ Overrides.keys # <<>>
    /\ ~DictHas(Entries, <<>>)

\* the override a call of add_override stores: the data it was given, with the
\* reason it was given when that is not empty
GivenOverride(call) ==
    IF call.reason # "" THEN SetField(call.data, "reason", call.reason) ELSE call.data

FrequencyFields == {"hit_count", "first_seen", "last_seen"}

\* C15: add_override on a non-empty key leaves under the key exactly the data
\* of this call, whatever override the key had, with a reason field iff the
\* reason is not empty and without frequency fields, and leaves every other
\* override alone; a lookup of the key right after it returns that override
\* with confidence 100.0.
C15_OverrideLastWins ==
    [][/\ (Called("add_override") /\ lastOp'.key # <<>>) =>
            LET k == lastOp'.key
                o == overrides'.overrides.val[k]
            IN  /\ DictHas(overrides'.overrides, k)
                /\ o = GivenOverride(lastOp')
                /\ \A f \in DOMAIN o : f = "reason" \/ o[f] = lastOp'.data[f]
                /\ "reason" \in DOMAIN o <=> lastOp'.reason # ""
                /\ FrequencyFields \cap DOMAIN o = {}
                /\ \A j \in (DOMAIN Overrides.val) \ {k} :
                      overrides'.overrides.val[j] = Overrides.val[j]
       /\ (/\ Called("lookup")
           /\ lastOp.op = "add_override"
           /\ lastOp.key # <<>>
           /\ lastOp'.key = lastOp.key)
          => ret' = Result(GivenOverride(lastOp), RatFromInt(100))]_vars

\* a lookup answered by an override that was given with a reason, on a key
\* the cache holds as well
C15_Witness ==
    /\ lastOp.op = "lookup"
    /\ lastOp.step = 1
    /\ ret = Result(SetField(SwanHill, "reason", "wrong state"), RatFromInt(100))
    /\ DictHas(Entries, lastOp.key)

\* the last call was a save that wrote both files
Saved == lastOp.op = "save" /\ ret = NoReturn

\* this instance was just constructed on a directory holding the two files a
\* save wrote, and has made no call yet
Reloaded ==
    /\ lastOp.op = "init"
    /\ ret = NoReturn
    /\ disk_cache = File(json_dump(cache))
    /\ disk_overrides = File(json_dump(overrides))

\* the keys get_unresolved lists after this step
UnresolvedQueue == {get_unresolved[i].key : i \in 1..Len(get_unresolved)}

\* no override answers a lookup of k
NotOverridden(k) == ~DictHas(Overrides, k) /\ ~OverrideMatches(k)

\* a fresh instance constructed right after a save holds the documents and the
\* key lists the saving instance held
RoundTrip ==
    (Saved /\ Called("init")) =>
        /\ ret' = NoReturn
        /\ cache' = cache
        /\ overrides' = overrides
        /\ cache_keys' = cache_keys
        /\ override_keys' = override_keys

\* C16 as stated: after a save, a fresh instance on the same directory holds
\* the same documents, and its first lookup returns the entry with 100.0 for
\* every resolved key, the override with 100.0 for every override key, and
\* (None, -1.0) for every unresolved key, which get_unresolved lists.
C16_AsStated ==
    [][/\ RoundTrip
       /\ (Reloaded /\ Called("lookup")) =>
            LET k == lastOp'.key
            IN  /\ (DictHas(Entries, k) /\ IsResolved(Entries.val[k]))
                   => ret' = Result(Hit(Entries.val[k]), RatFromInt(100))
                /\ DictHas(Overrides, k)
                   => ret' = Result(Overrides.val[k], RatFromInt(100))
                /\ (DictHas(Entries, k) /\ ~IsResolved(Entries.val[k]))
                   => /\ ret' = Result(NoRecord, RatFromInt(-1))
                      /\ k \in UnresolvedQueue']_vars

\* C16, amended: after a save, a fresh instance on the same directory holds
\* the same documents, total_lookups included, and the same key lists; its
\* first lookup returns the override with 100.0 for every override key, the
\* entry with 100.0 for every resolved key that no override matches, and
\* (None, -1.0) for every unresolved key that no override matches, which
\* get_unresolved lists.
C16_RoundTrip ==
    [][/\ RoundTrip
       /\ (Reloaded /\ Called("lookup")) =>
            LET k == lastOp'.key
            IN  /\ (DictHas(Entries, k) /\ IsResolved(Entries.val[k]) /\ NotOverridden(k))
                   => ret' = Result(Hit(Entries.val[k]), RatFromInt(100))
                /\ DictHas(Overrides, k)
                   => ret' = Result(Overrides.val[k], RatFromInt(100))
                /\ (DictHas(Entries, k) /\ ~IsResolved(Entries.val[k]) /\ NotOverridden(k))
                   => /\ ret' = Result(NoRecord, RatFromInt(-1))
                      /\ k \in UnresolvedQueue']_vars

\* a fresh instance that has made no lookup and holds a resolved entry, an
\* unresolved entry, an override and the lookups an earlier instance counted
C16_Witness ==
    /\ Reloaded
    /\ lookup_calls = 0
    /\ cache.meta.total_lookups = MaxLookups
    /\ \E k \in DOMAIN Entries.val : IsResolved(Entries.val[k])
    /\ \E k \in DOMAIN Entries.val : ~IsResolved(Entries.val[k])
    /\ Overrides.keys # <<>>

\* the file is missing, is not valid JSON or cannot be read
NoDocument(file) == ~file.exists \/ file.kind \in {"truncated", "bytes", "unreadable"}

\* the file holds the text of a JSON document
HoldsDocument(file) == file.exists /\ file.kind = "json"

\* C17: constructing an instance never raises, whatever the two files hold;
\* a file that is missing, is not valid JSON or cannot be read gives the
\* default document for that file, and a file that holds a document gives
\* that document, whatever the other file is.
C17_LoadResilience ==
    [][Called("init") =>
        /\ ret' = NoReturn
        /\ NoDocument(disk_cache) => cache' = DefaultCache
        /\ NoDocument(disk_overrides) => overrides' = DefaultOverrides
        /\ HoldsDocument(disk_cache) => cache' = json_load(disk_cache.text)
        /\ HoldsDocument(disk_overrides) => overrides' = json_load(disk_overrides.text)]_vars

\* C18: when save raises while writing one of the two files, the other file
\* holds what it held before the call or the whole of the document this
\* call writes to it.
C18_OtherFileIntact ==
    [][(Called("save") /\ ret' # NoReturn) =>
        /\ ret'.during = "location_cache.json"
           => \/ disk_overrides' = disk_overrides
              \/ disk_overrides' = File(json_dump(overrides'))
        /\ ret'.during = "location_overrides.json"
           => \/ disk_cache' = disk_cache
              \/ disk_cache' = File(json_dump(cache'))]_vars

\* a save that emptied the cache file and raised, next to an overrides file
\* that still holds the overrides an earlier save wrote
C18_Witness ==
    /\ lastOp.op = "save"
    /\ ret = Raised("OSError", "location_cache.json")
    /\ disk_cache = Damaged("truncated")
    /\ disk_overrides = File(json_dump(overrides))
    /\ Overrides.keys # <<>>

\* a save that wrote the cache file and raised on the overrides file
C18_WitnessOverrides ==
    /\ lastOp.op = "save"
    /\ ret = Raised("OSError", "location_overrides.json")
    /\ disk_overrides = Damaged("truncated")
    /\ disk_cache = File(json_dump(cache))
    /\ Entries.keys # <<>>

\* the sum of the values of a function
RECURSIVE SumOf(_)
SumOf(f) ==
    IF DOMAIN f = {} THEN 0
    ELSE LET x == CHOOSE x \in DOMAIN f : TRUE
         IN  f[x] + SumOf([y \in (DOMAIN f) \ {x} |-> f[y]])

\* C19: get_stats changes nothing of the instance or its files, and its
\* result has total_entries = resolved + unresolved = the number of cache
\* entries, resolved and unresolved the numbers of such entries, overrides =
\* the number of override keys, total_lookups the counter, and per-source
\* counts that sum to resolved.
C19_StatsPure ==
    [][Called("get_stats") =>
        /\ UNCHANGED <<instance, lookup_calls>>
        /\ ret'.total_entries = ret'.resolved + ret'.unresolved
        /\ ret'.total_entries = Cardinality(DOMAIN Entries.val)
        /\ ret'.resolved = Cardinality({k \in DOMAIN Entries.val : IsResolved(Entries.val[k])})
        /\ ret'.overrides = Cardinality(DOMAIN Overrides.val)
        /\ ret'.total_lookups = Get(cache.meta, "total_lookups", 0)
        /\ SumOf(ret'.sources) = ret'.resolved
        /\ \A x \in DOMAIN ret'.sources : ret'.sources[x] >= 1]_vars

\* the statistics of a cache with two resolved entries from two sources, an
\* override and a counted lookup
C19_Witness ==
    /\ lastOp.op = "get_stats"
    /\ ret.total_entries = 2
    /\ ret.resolved = 2
    /\ ret.overrides = 1
    /\ ret.total_lookups >= 1
    /\ DOMAIN ret.sources = InputSources

\* the statistics of a cache with a resolved and an unresolved entry
C19_WitnessUnresolved ==
    /\ lastOp.op = "get_stats"
    /\ ret.resolved = 1
    /\ ret.unresolved = 1

\* the resolved keys of the cache
ResolvedKeys == {k \in DOMAIN Entries.val : IsResolved(Entries.val[k])}

\* key j comes before key k in get_top_locations: a higher hit_count, or the
\* same and earlier in the iteration order of the entries
RanksBefore(j, k) ==
    \/ Entries.val[j].hit_count > Entries.val[k].hit_count
    \/ /\ Entries.val[j].hit_count = Entries.val[k].hit_count
       /\ IndexOf(Entries.keys, j) < IndexOf(Entries.keys, k)

\* C20: get_top_locations(n) changes nothing and returns min(n, number of
\* resolved entries) records, each a resolved entry of the cache with its
\* key, no key twice, in non-increasing hit_count order with equal counts in
\* the iteration order of the entries, and every resolved entry left out
\* ranks after every entry returned.
C20_TopLocations ==
    [][Called("get_top_locations") =>
        LET n == lastOp'.n
            top == ret'
            keys == {top[i].key : i \in 1..Len(top)}
        IN  /\ UNCHANGED <<instance, lookup_calls>>
            /\ Len(top) <= n
            /\ Len(top) = IF Cardinality(ResolvedKeys) < n THEN Cardinality(ResolvedKeys) ELSE n
            /\ Cardinality(keys) = Len(top)
            /\ keys \subseteq ResolvedKeys
            /\ \A i \in 1..Len(top) :
                  /\ top[i].resolved
                  /\ top[i] = WithKey([key |-> top[i].key, entry |-> Entries.val[top[i].key]])
            /\ \A i, j \in 1..Len(top) :
                  i < j => /\ top[i].hit_count >= top[j].hit_count
                           /\ RanksBefore(top[i].key, top[j].key)
            /\ \A k \in ResolvedKeys \ keys : \A j \in keys : RanksBefore(j, k)]_vars

\* the top 1 of two resolved entries is the one stored second, which has the
\* higher hit_count
C20_Witness ==
    /\ lastOp.op = "get_top_locations"
    /\ lastOp.n = 1
    /\ Cardinality(ResolvedKeys) = 2
    /\ Len(ret) = 1
    /\ ret[1].key = Entries.keys[2]
    /\ ret[1].hit_count = MaxHits
    /\ Entries.val[Entries.keys[1]].hit_count = 1

\* the unresolved keys of the cache that are not keys of the overrides
UnresolvedNotOverridden ==
    {k \in DOMAIN Entries.val : ~IsResolved(Entries.val[k]) /\ ~DictHas(Overrides, k)}

\* C21: get_unresolved changes nothing and returns, once each and with its
\* key, every unresolved entry whose key is not a key of the overrides, and
\* nothing else, in non-increasing hit_count order.
C21_UnresolvedQueue ==
    [][Called("get_unresolved") =>
        LET queue == ret'
            keys == {queue[i].key : i \in 1..Len(queue)}
        IN  /\ UNCHANGED <<instance, lookup_calls>>
            /\ keys = UnresolvedNotOverridden
            /\ Len(queue) = Cardinality(keys)
            /\ \A i \in 1..Len(queue) :
                  queue[i] = WithKey([key |-> queue[i].key, entry |-> Entries.val[queue[i].key]])
            /\ \A i, j \in 1..Len(queue) :
                  i < j => queue[i].hit_count >= queue[j].hit_count]_vars

\* the queue of a cache with two unresolved keys, the more frequent of which
\* has an override
C21_Witness ==
    /\ lastOp.op = "get_unresolved"
    /\ Len(ret) = 1
    /\ ret[1].hit_count = 1
    /\ \E k \in DOMAIN Entries.val :
          /\ ~IsResolved(Entries.val[k])
          /\ DictHas(Overrides, k)
          /\ Entries.val[k].hit_count = MaxHits

\* C22: a lookup of a key that get_unresolved lists returns (None, -1.0),
\* not the data of an override.
C22_QueueAgreesWithLookup ==
    [][(Called("lookup") /\ lastOp'.key \in UnresolvedQueue)
        => ret' = Result(NoRecord, RatFromInt(-1))]_vars

\* C23: what _normalize returns is a fixed point of _normalize, has no
\* uppercase letter, none of the characters ' " - . , *, no whitespace at
\* either end and no two whitespace characters in a row.
C23_NormalizeCanonical ==
    lastOp.op = "normalize" =>
        /\ normalize(ret) = ret
        /\ \A i \in 1..Len(ret) :
              /\ ret[i] \notin Range(UpperLetters)
              /\ ret[i] \notin Punctuation
        /\ ret # <<>> => ret[1] \notin Whitespace /\ ret[Len(ret)] \notin Whitespace
        /\ \A i \in 1..(Len(ret) - 1) : ~(ret[i] \in Whitespace /\ ret[i + 1] \in Whitespace)
        /\ lastOp.text = TextFH => ret = <<"f", "h", " ", "l", "a", "b">>
        /\ lastOp.text = TextSpaced => ret = <<"a", "b", " ", "c", "d">>
        /\ lastOp.text = TextDots => ret = <<"b", " ", "a", " ", "b", "e", "d">>
        /\ lastOp.text = <<>> => ret = <<>>

\* a text that ends with punctuation after whitespace
C23_Witness ==
    /\ lastOp.op = "normalize"
    /\ lastOp.text = <<"B", "\t", "*">>
    /\ ret = <<"b">>

\* the dict holds every key once, none of them empty, all of them fixed
\* points of _normalize
CanonicalKeys(d) ==
    /\ Range(d.keys) = DOMAIN d.val
    /\ Len(d.keys) = Cardinality(DOMAIN d.val)
    /\ \A k \in DOMAIN d.val : k # <<>> /\ normalize(k) = k

\* C24: on a cache that started empty, every key of the entries and of the
\* overrides is non-empty and in normalized form, and is held once.
C24_CanonicalKeys == CanonicalKeys(Entries) /\ CanonicalKeys(Overrides)

\* both documents hold keys, stored under raw texts that are not normalized
C24_Witness ==
    /\ Len(Entries.keys) = 2
    /\ DictHas(Entries, normalize(TextBDotA))
    /\ DictHas(Entries, normalize(TextABC))
    /\ Entries.val[normalize(TextBDotA)].hit_count = MaxHits
    /\ DictHas(Overrides, normalize(TextAB))

\* the override keys with the highest score against k
BestOverrides(k) ==
    {o \in DOMAIN Overrides.val :
        \A p \in DOMAIN Overrides.val : ~RatLess(scorer(k, o), scorer(k, p))}

\* C25: a lookup of a non-empty key that is no override key is answered by
\* the fuzzy override search when some override key scores at or above the
\* threshold, with an override of the highest score among all override keys
\* and that score as the confidence; when none does, the lookup goes on to
\* the cache steps.
C25_FuzzyOverrideBest ==
    [][Called("lookup") =>
        LET k == lastOp'.key
        IN  (k # <<>> /\ ~DictHas(Overrides, k)) =>
                IF OverrideMatches(k)
                THEN /\ lastOp'.step = 2
                     /\ \E o \in BestOverrides(k) :
                            ret' = Result(Overrides.val[o], scorer(k, o))
                ELSE /\ lastOp'.step \in 3..5
                     /\ DictHas(Entries, k) => lastOp'.step = 3
                     /\ ret'.data \notin {Overrides.val[o] : o \in DOMAIN Overrides.val}]_vars

\* two overrides score 600/7 and 100 against "a b", the lower one added first
\* with other data, and the lookup returned the higher one
C25_Witness ==
    /\ lastOp = Call("lookup", normalize(TextAB), 2)
    /\ Overrides.keys = <<normalize(TextABC), normalize(TextBA)>>
    /\ Overrides.val[normalize(TextABC)] # Overrides.val[normalize(TextBA)]
    /\ ret = Result(Overrides.val[normalize(TextBA)], RatFromInt(100))

\* the only override scores 600/7 against "a b", below the threshold of 95,
\* and the lookup was answered by the cache
C25_WitnessBelow ==
    /\ lastOp = Call("lookup", normalize(TextAB), 3)
    /\ fuzzy_threshold = 95
    /\ Overrides.keys = <<normalize(TextABC)>>
    /\ ret.conf = RatFromInt(100)

\* C27: after construction and after every operation, _cache_keys lists
\* exactly the keys of the entries and _override_keys exactly the keys of the
\* overrides, so every stored key is a candidate of the next fuzzy search and
\* every candidate has an entry.
C27_IndexIsLive ==
    /\ cache_keys = Entries.keys
    /\ override_keys = Overrides.keys
    /\ Range(cache_keys) = DOMAIN Entries.val
    /\ Range(override_keys) = DOMAIN Overrides.val

\* an override was just added next to two entries, and all three keys are
\* candidates
C27_Witness ==
    /\ lastOp.op = "add_override"
    /\ lastOp.key = normalize(TextAB)
    /\ Range(override_keys) = {normalize(TextAB)}
    /\ Range(cache_keys) = {normalize(TextBA), normalize(TextABC)}

\* a fresh instance on a saved directory lists the keys of the files
C27_WitnessReopened ==
    /\ lastOp.op = "init"
    /\ ret = NoReturn
    /\ Range(override_keys) = {normalize(TextAB)}
    /\ Range(cache_keys) = {normalize(TextBA), normalize(TextABC)}

\* C28: a lookup of a key that an override matches, exactly or fuzzily,
\* changes total_lookups and nothing else, whatever entries the cache holds;
\* and lookup, store, store_unresolvable and save leave the override
\* document as it was.
C28_OverrideAnswerFrame ==
    [][/\ Called("lookup") =>
            LET k == lastOp'.key
            IN  (k # <<>> /\ (DictHas(Overrides, k) \/ OverrideMatches(k)))
                => /\ lastOp'.step \in {1, 2}
                   /\ cache'.entries = Entries
                   /\ cache' = increment_lookups(cache)
                   /\ UNCHANGED <<session, fuzzy_threshold, overrides, cache_keys, override_keys,
                                  disk_cache, disk_overrides>>
       /\ (\/ Called("lookup")
           \/ Called("store")
           \/ Called("store_unresolvable")
           \/ Called("save")) => overrides' = overrides]_vars

\* an override answered a lookup of a key the cache holds too, at a later
\* time than the entry was stored, and the entry was not touched
C28_Witness ==
    /\ lastOp = Call("lookup", normalize(TextBA), 1)
    /\ ret = Result(Overrides.val[normalize(TextBA)], RatFromInt(100))
    /\ DictHas(Entries, normalize(TextBA))
    /\ Entries.val[normalize(TextBA)].hit_count = 1
    /\ Entries.val[normalize(TextBA)].last_seen = 0
    /\ clock = 1
    /\ cache.meta.total_lookups = MaxLookups

\* a fuzzy override match answered a lookup of a key next to a cache entry
C28_WitnessFuzzy ==
    /\ lastOp = Call("lookup", normalize(TextAB), 2)
    /\ ret = Result(Overrides.val[normalize(TextBA)], RatFromInt(100))
    /\ DictHas(Entries, normalize(TextBA))
    /\ IsResolved(Entries.val[normalize(TextBA)])
    /\ Entries.val[normalize(TextBA)].hit_count = 1

\* the position of key k in the queue of get_unresolved
QueuePosition(queue, k) == CHOOSE i \in 1..Len(queue) : queue[i].key = k

\* C29: the lookup of an unresolved cache key that returns (None, -1.0) adds
\* one to the entry's hit_count and sets its last_seen to the present time,
\* leaves it unresolved and without coordinates, and the key is listed by
\* get_unresolved with the new hit_count, no later than before.
C29_SentinelLookupTouches ==
    [][Called("lookup") =>
        LET k == lastOp'.key
        IN  (/\ DictHas(Entries, k)
             /\ ~IsResolved(Entries.val[k])
             /\ ret' = Result(NoRecord, RatFromInt(-1)))
            => /\ lastOp'.step = 3
               /\ cache'.entries.val[k] = Hit(Entries.val[k])
               /\ cache'.entries.val[k].hit_count = Entries.val[k].hit_count + 1
               /\ cache'.entries.val[k].last_seen = clock
               /\ ~IsResolved(cache'.entries.val[k])
               /\ DOMAIN cache'.entries.val[k] = DOMAIN Entries.val[k]
               /\ DOMAIN cache'.entries.val[k] \cap {"lat", "lon"} = {}
               /\ k \in UnresolvedQueue /\ k \in UnresolvedQueue'
               /\ get_unresolved'[QueuePosition(get_unresolved', k)].hit_count
                      = Entries.val[k].hit_count + 1
               /\ QueuePosition(get_unresolved', k) <= QueuePosition(get_unresolved, k)]_vars

\* of two unresolved keys stored once each, the one stored second was looked
\* up at a later time and is now first in the queue
C29_Witness ==
    /\ lastOp = Call("lookup", normalize(TextBA), 3)
    /\ ret = Result(NoRecord, RatFromInt(-1))
    /\ Entries.keys = <<normalize(TextABC), normalize(TextBA)>>
    /\ Entries.val[normalize(TextBA)] =
           [resolved |-> FALSE, hit_count |-> 2, first_seen |-> 0, last_seen |-> 1]
    /\ Entries.val[normalize(TextABC)].hit_count = 1
    /\ Len(get_unresolved) = 2
    /\ get_unresolved[1].key = normalize(TextBA)

\* C30: store on an unresolved cache key leaves a resolved entry with the
\* coordinates of the data, the unresolved entry's hit_count plus one and its
\* first_seen, and takes the key out of the queue of get_unresolved; a
\* resolved key stays resolved, is never listed by get_unresolved, and a
\* lookup of it that no override matches returns its record with confidence
\* 100.0.
C30_Promotion ==
    [][/\ Called("store") =>
            LET k == lastOp'.key
                e == cache'.entries.val[k]
            IN  (DictHas(Entries, k) /\ ~IsResolved(Entries.val[k]))
                => /\ IsResolved(e)
                   /\ \E data \in InputStoreData :
                         /\ e.lat = Get(data, "lat", None)
                         /\ e.lon = Get(data, "lon", None)
                   /\ e.hit_count = Entries.val[k].hit_count + 1
                   /\ e.first_seen = Entries.val[k].first_seen
                   /\ k \notin UnresolvedQueue'
       /\ \A k \in DOMAIN Entries.val :
            IsResolved(Entries.val[k])
            => /\ k \notin UnresolvedQueue
               /\ DictHas(cache'.entries, k)
               /\ IsResolved(cache'.entries.val[k])
       /\ Called("lookup") =>
            LET k == lastOp'.key
            IN  (/\ DictHas(Entries, k)
                 /\ IsResolved(Entries.val[k])
                 /\ ~DictHas(Overrides, k)
                 /\ ~OverrideMatches(k))
                => /\ ret' = Result(cache'.entries.val[k], RatFromInt(100))
                   /\ ret'.data = Hit(Entries.val[k])
       /\ Called("get_unresolved") =>
            \A i \in 1..Len(ret') : ~IsResolved(Entries.val[ret'[i].key])]_vars

\* the files hold the key as saved, unresolved with one hit; since then it
\* was stored at a later time, which promoted it, and then looked up, which
\* returned the record
C30_Witness ==
    LET k == normalize(TextCD)
    IN  /\ disk_cache = File(json_dump([cache EXCEPT
              !.meta = [version |-> 1, total_entries |-> 1, total_lookups |-> 0],
              !.entries = DictPut(EmptyDict, k,
                  [resolved |-> FALSE, hit_count |-> 1, first_seen |-> 0, last_seen |-> 0])]))
        /\ lastOp = Call("lookup", k, 3)
        /\ ret = Result(Entries.val[k], RatFromInt(100))
        /\ IsResolved(Entries.val[k])
        /\ Entries.val[k].lat = SwanHill.lat
        /\ Entries.val[k].hit_count = 3
        /\ Entries.val[k].first_seen = 0
        /\ Entries.val[k].last_seen = 1
        /\ get_unresolved = <<>>

\* the promotion itself: the entry right after the store
C30_WitnessStored ==
    LET k == normalize(TextCD)
    IN  /\ disk_cache # NoFile
        /\ DictHas(json_load(disk_cache.text).entries, k)
        /\ ~IsResolved(json_load(disk_cache.text).entries.val[k])
        /\ json_load(disk_cache.text).entries.val[k].hit_count = 1
        /\ lastOp = Call("store", k, 0)
        /\ IsResolved(Entries.val[k])
        /\ Entries.val[k].hit_count = 2
        /\ get_unresolved = <<>>

\* the lookup this call of the extractor made returned a negative confidence
SentinelAnswered(op) ==
    /\ Called(op)
    /\ lastOp'.asked
    /\ RatLess(lastOp'.conf, RatFromInt(0))

\* the call made one lookup, which touched the entry of key k, and nothing more
OnlyLookedUp(k) ==
    /\ lookup_calls' = lookup_calls + 1
    /\ cache'.meta = SetField(cache.meta, "total_lookups", cache.meta.total_lookups + 1)
    /\ cache'.entries.val[k] = Hit(Entries.val[k])
    /\ OthersUnchanged({k})
    /\ ~IsResolved(cache'.entries.val[k])
    /\ UNCHANGED <<session, fuzzy_threshold, overrides, cache_keys, override_keys,
                   disk_cache, disk_overrides>>

\* C26: when the lookup made by get_coordinates returns a negative
\* confidence, get_coordinates returns None without reading the database,
\* calling the geocoder or storing; when the lookup made by
\* extract_location_features does, it returns the default features without
\* running the extraction strategy, resolving or storing.  Either call leaves
\* the session cache, the keys and the other entries as they were.
C26_SentinelSuppresses ==
    [][/\ SentinelAnswered("get_coordinates") =>
            /\ ret' = NoRecord
            /\ ~lastOp'.db /\ ~lastOp'.geocoder /\ ~lastOp'.stored
            /\ OnlyLookedUp(lastOp'.key)
       /\ SentinelAnswered("extract_location_features") =>
            /\ ret' = DefaultFeatures
            /\ ~lastOp'.extracted
            /\ ~lastOp'.db /\ ~lastOp'.geocoder /\ ~lastOp'.stored
            /\ OnlyLookedUp(lastOp'.key)]_vars

\* get_coordinates returned None for a name the database holds, because the
\* cache knows the key as unresolvable
C26_Witness ==
    /\ lastOp.op = "get_coordinates"
    /\ lastOp.key = normalize(TextBA)
    /\ DictHas(locations_db, lastOp.key)
    /\ lastOp.asked
    /\ lastOp.conf = RatFromInt(-1)
    /\ ret = NoRecord
    /\ ~IsResolved(Entries.val[lastOp.key])
    /\ Entries.val[lastOp.key].hit_count = 2
    /\ session = EmptyDict

\* extract_location_features returned the default features for a text the
\* cache knows as unresolvable
C26_WitnessFeatures ==
    /\ lastOp.op = "extract_location_features"
    /\ lastOp.key = normalize(TextABC)
    /\ lastOp.conf = RatFromInt(-1)
    /\ ret = DefaultFeatures
    /\ ~IsResolved(Entries.val[lastOp.key])
    /\ Entries.val[lastOp.key].hit_count = 2

====
